---- MODULE Spec2Model ----
(***************************************************************************)
(* A model of the Asana MCP gateway (primrose-mcp-asana):                  *)
(*   - the Worker's fetch handler (src/src/index.ts),                      *)
(*   - credential parsing and validation (src/src/types/entities.ts),      *)
(*   - the HTTP client adapter request / requestPaginated                  *)
(*     (src/src/client.ts),                                                *)
(*   - the tool handlers and formatError (src/src/tools, src/unnamed).     *)
(*                                                                         *)
(* JavaScript values are tagged records, so that null, undefined, NaN, ""  *)
(* and 0 stay distinct and the code's truthiness tests (||, !x, x ? a : b) *)
(* are computed rather than assumed.  A message is a sequence of string    *)
(* parts (the pieces a template literal concatenates); JSON text is the    *)
(* ordered list of key/value entries JSON.stringify emits.                 *)
(***************************************************************************)
EXTENDS Integers, Sequences, FiniteSets, TLC

\* ------------------------------------------------------------------ bounds

\* Number of inbound HTTP requests that may be in progress at once.
MaxReq == 2
\* Longest Retry-After header value (in characters) the upstream sends.
MaxHdrLen == 2

\* ------------------------------------------------------- program constants

API_BASE_URL == "https://app.asana.com/api/1.0"
SERVER_NAME == "primrose-mcp-asana"
SERVER_VERSION == "1.0.0"
TokenHeader == "X-Asana-Access-Token"
\* The wait hint used when no Retry-After header is present.
DefaultRetryAfter == 60

\* ------------------------------------------------------ JavaScript values

JUndef == [t |-> "undefined"]
JNull == [t |-> "null"]
JNaN == [t |-> "NaN"]
\* A string, as the sequence of its non-empty parts: "" is JStr(<<>>).
JStr(parts) == [t |-> "str", s |-> parts]
Str(s) == JStr(IF s = "" THEN <<>> ELSE <<s>>)
\* a + b on strings, and a template literal `${a}${b}`.
Concat(a, b) == JStr(a.s \o b.s)
\* A string whose characters the code inspects (a header value).
JChars(cs) == [t |-> "chars", cs |-> cs]
JNum(n) == [t |-> "num", n |-> n]
JBool(b) == [t |-> "bool", b |-> b]
\* A number that is no integer, by its decimal digits: JDec(1, 5) is 1.5.
JDec(i, f) == [t |-> "dec", i |-> i, f |-> f]
\* `${v}` and String(v): an array is its elements joined by ",", null and
\* undefined elements being empty.
RECURSIVE Template(_)
RECURSIVE JoinItems(_)
JoinItems(xs) ==
  IF xs = <<>> THEN <<>>
  ELSE (IF Head(xs).t \in {"undefined", "null"} THEN <<>> ELSE Template(Head(xs)).s)
       \o (IF Tail(xs) = <<>> THEN <<>> ELSE <<",">> \o JoinItems(Tail(xs)))
Template(v) ==
  CASE v.t = "str" -> v
    [] v.t = "undefined" -> [t |-> "str", s |-> <<"undefined">>]
    [] v.t = "null" -> [t |-> "str", s |-> <<"null">>]
    [] v.t = "num" -> [t |-> "str", s |-> <<ToString(v.n)>>]
    [] v.t = "dec" -> [t |-> "str", s |-> <<ToString(v.i), ".", ToString(v.f)>>]
    [] v.t = "bool" -> [t |-> "str", s |-> <<IF v.b THEN "true" ELSE "false">>]
    [] v.t = "NaN" -> [t |-> "str", s |-> <<"NaN">>]
    [] v.t = "arr" -> [t |-> "str", s |-> JoinItems(v.xs)]
    [] OTHER -> [t |-> "str", s |-> <<"[object Object]">>]
\* An object: its entries, in insertion order, as <<key, value>> pairs.
JObj(es) == [t |-> "obj", es |-> es]
JArr(xs) == [t |-> "arr", xs |-> xs]

\* JavaScript ToBoolean.
Truthy(v) ==
  CASE v.t = "undefined" -> FALSE
    [] v.t = "null" -> FALSE
    [] v.t = "NaN" -> FALSE
    [] v.t = "str" -> v.s # <<>>
    [] v.t = "chars" -> v.cs # <<>>
    [] v.t = "num" -> v.n # 0
    [] v.t = "bool" -> v.b
    [] OTHER -> TRUE

\* a || b
Or(a, b) == IF Truthy(a) THEN a ELSE b

HasKey(o, k) == o.t = "obj" /\ \E i \in 1..Len(o.es) : o.es[i][1] = k

\* o[k] for an object o: undefined when the key is missing.
Get(o, k) ==
  IF HasKey(o, k)
  THEN o.es[CHOOSE i \in 1..Len(o.es) : o.es[i][1] = k][2]
  ELSE JUndef

\* ------------------------------------------------------------------ parseInt

Digits == <<"0", "1", "2", "3", "4", "5", "6", "7", "8", "9">>
IsDigit(c) == \E d \in 1..10 : Digits[d] = c
DigitVal(c) == (CHOOSE d \in 1..10 : Digits[d] = c) - 1
IsSpace(c) == c = " "
\* String(n) for an integer n.
NumToStr(n) == Str(ToString(n))

RECURSIVE SkipSpaces(_)
SkipSpaces(cs) ==
  IF cs # <<>> /\ IsSpace(Head(cs)) THEN SkipSpaces(Tail(cs)) ELSE cs

\* The longest prefix of cs made of decimal digits.
RECURSIVE LeadingDigits(_)
LeadingDigits(cs) ==
  IF cs # <<>> /\ IsDigit(Head(cs))
  THEN <<Head(cs)>> \o LeadingDigits(Tail(cs))
  ELSE <<>>

RECURSIVE DigitsValue(_, _)
DigitsValue(ds, acc) ==
  IF ds = <<>> THEN acc ELSE DigitsValue(Tail(ds), 10 * acc + DigitVal(Head(ds)))

\* parseInt(cs, 10): leading white space is skipped, one sign is accepted,
\* the longest run of digits is read and the rest is ignored; NaN when no
\* digit is found.
ParseInt(cs) ==
  LET s0 == SkipSpaces(cs)
      neg == s0 # <<>> /\ Head(s0) = "-"
      s1 == IF s0 # <<>> /\ Head(s0) \in {"-", "+"} THEN Tail(s0) ELSE s0
      ds == LeadingDigits(s1)
  IN IF ds = <<>> THEN JNaN
     ELSE JNum(IF neg THEN 0 - DigitsValue(ds, 0) ELSE DigitsValue(ds, 0))

\* ------------------------------------------------------------------ errors
\* utils/errors.ts: the error classes the adapter throws.  Every error value
\* carries the same fields; isError is `instanceof Error`, isApi is
\* `instanceof AsanaApiError`.

NoError ==
  [name |-> "none", message |-> JUndef, isError |-> FALSE, isApi |-> FALSE, statusCode |-> JUndef,
   retryable |-> FALSE, retryAfter |-> JUndef]

\* new AsanaApiError(message, statusCode): the generic error, not retryable.
AsanaApiError(message, statusCode) ==
  [name |-> "AsanaApiError", message |-> message, isError |-> TRUE, isApi |-> TRUE,
   statusCode |-> statusCode, retryable |-> FALSE, retryAfter |-> JUndef]

\* new RateLimitError(message, retryAfter): retryable, carries the wait hint
\* it is given.
RateLimitError(message, retryAfter) ==
  [name |-> "RateLimitError", message |-> message, isError |-> TRUE, isApi |-> TRUE,
   statusCode |-> JNum(429), retryable |-> TRUE, retryAfter |-> retryAfter]

\* new AuthenticationError(message): not retryable.
AuthenticationError(message) ==
  [name |-> "AuthenticationError", message |-> message, isError |-> TRUE, isApi |-> TRUE,
   statusCode |-> JNum(401), retryable |-> FALSE, retryAfter |-> JUndef]

\* new NotFoundError(resource, path): its message names the resource and the
\* path.
NotFoundError(resource, path) ==
  [name |-> "NotFoundError",
   message |-> Concat(Concat(resource, Str(" not found: ")), path),
   isError |-> TRUE, isApi |-> TRUE, statusCode |-> JNum(404), retryable |-> FALSE,
   retryAfter |-> JUndef]

\* An error raised by the runtime itself (SyntaxError of JSON.parse and
\* response.json(), TypeError of a property read on null or of a failed
\* fetch): an Error that is no AsanaApiError.
RuntimeError(name, message) ==
  [name |-> name, message |-> message, isError |-> TRUE, isApi |-> FALSE, statusCode |-> JUndef,
   retryable |-> FALSE, retryAfter |-> JUndef]

\* A thrown value that is no Error (throw 'boom', throw null): message holds
\* the value itself.
ThrownValue(v) ==
  [name |-> "value", message |-> v, isError |-> FALSE, isApi |-> FALSE,
   statusCode |-> JUndef, retryable |-> FALSE, retryAfter |-> JUndef]

\* formatErrorForLogging(error): the `details` object of the error envelope.
formatErrorForLogging(error) ==
  IF error.isApi
  THEN JObj(<< <<"name", Str(error.name)>>, <<"message", error.message>>,
               <<"statusCode", error.statusCode>>,
               <<"retryable", JBool(error.retryable)>> >>)
  ELSE IF error.isError
  THEN JObj(<< <<"name", Str(error.name)>>, <<"message", error.message>> >>)
  ELSE JObj(<< <<"error", Template(error.message)>> >>)

\* -------------------------------------------------------- upstream responses
\* What fetch() resolves to.  rejected: the network call failed and fetch
\* rejected.  retryAfter is response.headers.get('Retry-After'): null when
\* the header is absent.  A body is its text: json tells whether JSON.parse
\* accepts it, v is the value it parses to.

Response(status, retryAfter, body) ==
  [rejected |-> FALSE, status |-> status, retryAfter |-> retryAfter, body |-> body]
Rejected ==
  [rejected |-> TRUE, status |-> 0, retryAfter |-> JNull,
   body |-> [json |-> FALSE, v |-> JUndef]]

JsonBody(v) == [json |-> TRUE, v |-> v]
\* A body JSON.parse rejects: empty, HTML, truncated.
TextBody == [json |-> FALSE, v |-> JUndef]

\* response.ok
IsOk(status) == status >= 200 /\ status <= 299

\* ----------------------------------------------------- HTTP client adapter

\* The headers are built whatever the token is.
getAuthHeaders_NoCheck(credentials) ==
  [ok |-> TRUE, error |-> NoError,
   headers |-> JObj(<<
     <<"Authorization", Concat(Str("Bearer "), Template(credentials.accessToken))>>,
     <<"Content-Type", Str("application/json")>>,
     <<"Accept", Str("application/json")>> >>)]
\* getAuthHeaders(): throws when the client holds no token.
getAuthHeaders(credentials) ==
  IF ~Truthy(credentials.accessToken)
  THEN [ok |-> FALSE,
        error |-> AuthenticationError(
                    Str("No access token provided. Include X-Asana-Access-Token header.")),
        headers |-> JUndef]
  ELSE [ok |-> TRUE, error |-> NoError,
        headers |-> JObj(<<
          <<"Authorization", Concat(Str("Bearer "), credentials.accessToken)>>,
          <<"Content-Type", Str("application/json")>>,
          <<"Accept", Str("application/json")>> >>)]

\* The outcome of an adapter call: a value returned or an error thrown, and
\* how many times the response body was read (text() or json()).
Returned(v, reads) == [ok |-> TRUE, value |-> v, error |-> NoError, bodyReads |-> reads]
Thrown(e, reads) == [ok |-> FALSE, value |-> JUndef, error |-> e, bodyReads |-> reads]

\* The wait hint of a 429: retryAfter ? parseInt(retryAfter, 10) : 60.
RetryAfterHint(retryAfter) ==
  IF Truthy(retryAfter) THEN ParseInt(retryAfter.cs) ELSE JNum(DefaultRetryAfter)

\* a?.[0] for the values the model holds: the first element of an array,
\* undefined otherwise.
First(a) == IF a.t = "arr" /\ a.xs # <<>> THEN a.xs[1] ELSE JUndef
\* a?.k
OptGet(a, k) == IF a.t \in {"undefined", "null"} THEN JUndef ELSE Get(a, k)

\* Only the top-level message is looked up.
ErrorMessage_TopLevelOnly(status, body) ==
  LET default == Concat(Str("Asana API error: "), NumToStr(status))
  IN IF ~body.json \/ body.v.t \in {"null", "undefined"} THEN default
     ELSE Or(Get(body.v, "message"), default)

\* The message of a generic API error: the body is parsed, and
\* errorJson.errors?.[0]?.message || errorJson.message || message is taken;
\* a body that does not parse, or the TypeError of reading a property of
\* null, leaves the default message.
ErrorMessage(status, body) ==
  LET default == Concat(Str("Asana API error: "), NumToStr(status))
  IN IF ~body.json \/ body.v.t \in {"null", "undefined"} THEN default
     ELSE Or(Or(OptGet(First(OptGet(body.v, "errors")), "message"),
                Get(body.v, "message")),
             default)

\* (await response.json()).data
ReadData_WholeBody(body) ==
  IF ~body.json
  THEN Thrown(RuntimeError("SyntaxError", Str("Unexpected end of JSON input")), 1)
  ELSE IF body.v.t \in {"null", "undefined"}
  THEN Thrown(RuntimeError("TypeError", Str("Cannot read properties of null")), 1)
  ELSE Returned(body.v, 1)
ReadData(body) ==
  IF ~body.json
  THEN Thrown(RuntimeError("SyntaxError", Str("Unexpected end of JSON input")), 1)
  ELSE IF body.v.t \in {"null", "undefined"}
  THEN Thrown(RuntimeError("TypeError", Str("Cannot read properties of null")), 1)
  ELSE Returned(Get(body.v, "data"), 1)

\* The 401/403 branch tests 401 alone, so a 403 ends as a generic error.
request_Only401(endpoint, resp) ==
  IF resp.rejected
  THEN Thrown(RuntimeError("TypeError", Str("fetch failed")), 0)
  ELSE IF resp.status = 429
  THEN Thrown(RateLimitError(Str("Rate limit exceeded"), RetryAfterHint(resp.retryAfter)), 0)
  ELSE IF resp.status = 401
  THEN Thrown(AuthenticationError(
                Str("Authentication failed. Check your Asana access token.")), 0)
  ELSE IF resp.status = 404
  THEN Thrown(NotFoundError(Str("Resource"), endpoint), 0)
  ELSE IF ~IsOk(resp.status)
  THEN Thrown(AsanaApiError(ErrorMessage(resp.status, resp.body), JNum(resp.status)), 1)
  ELSE IF resp.status = 204
  THEN Returned(JUndef, 0)
  ELSE ReadData(resp.body)

\* request<T>(endpoint, options), from the point where fetch has settled.
request(endpoint, resp) ==
  IF resp.rejected
  THEN Thrown(RuntimeError("TypeError", Str("fetch failed")), 0)
  ELSE IF resp.status = 429
  THEN Thrown(RateLimitError(Str("Rate limit exceeded"), RetryAfterHint(resp.retryAfter)), 0)
  ELSE IF resp.status = 401 \/ resp.status = 403
  THEN Thrown(AuthenticationError(
                Str("Authentication failed. Check your Asana access token.")), 0)
  ELSE IF resp.status = 404
  THEN Thrown(NotFoundError(Str("Resource"), endpoint), 0)
  ELSE IF ~IsOk(resp.status)
  THEN Thrown(AsanaApiError(ErrorMessage(resp.status, resp.body), JNum(resp.status)), 1)
  ELSE IF resp.status = 204
  THEN Returned(JUndef, 0)
  ELSE ReadData(resp.body)

\* { data: json.data, nextPage: json.next_page } of requestPaginated.
ReadPage(body) ==
  IF ~body.json
  THEN Thrown(RuntimeError("SyntaxError", Str("Unexpected end of JSON input")), 1)
  ELSE IF body.v.t \in {"null", "undefined"}
  THEN Thrown(RuntimeError("TypeError", Str("Cannot read properties of null")), 1)
  ELSE Returned(JObj(<< <<"data", Get(body.v, "data")>>,
                        <<"nextPage", Get(body.v, "next_page")>> >>), 1)

\* requestPaginated<T>(endpoint, params), from the point where fetch has
\* settled: no branch for 404 and none for 204.
requestPaginated(endpoint, resp) ==
  IF resp.rejected
  THEN Thrown(RuntimeError("TypeError", Str("fetch failed")), 0)
  ELSE IF resp.status = 429
  THEN Thrown(RateLimitError(Str("Rate limit exceeded"), RetryAfterHint(resp.retryAfter)), 0)
  ELSE IF resp.status = 401 \/ resp.status = 403
  THEN Thrown(AuthenticationError(
                Str("Authentication failed. Check your Asana access token.")), 0)
  ELSE IF ~IsOk(resp.status)
  THEN Thrown(AsanaApiError(ErrorMessage(resp.status, resp.body), JNum(resp.status)), 1)
  ELSE ReadPage(resp.body)

\* The query parameters requestPaginated adds to the URL: limit (as
\* String(params.limit)) and offset are set when truthy.
PaginatedQuery(params) ==
  (IF Truthy(params.limit) THEN << <<"limit", Template(params.limit)>> >> ELSE <<>>)
  \o (IF Truthy(params.offset) THEN << <<"offset", params.offset>> >> ELSE <<>>)

\* An outbound HTTP call as handed to fetch(): the URL and the init object
\* {...options, headers}, whose options hold method and body and no signal.
FetchCall(endpoint, query, method, headers, body) ==
  [base |-> API_BASE_URL, endpoint |-> endpoint, query |-> query,
   method |-> method, headers |-> headers, body |-> body, signal |-> JUndef]

\* ------------------------------------------------------------ JSON.stringify

\* JSON.stringify of a value: entries whose value is undefined are dropped,
\* NaN becomes null, undefined inside an array becomes null.
RECURSIVE StringifyEntries(_)
RECURSIVE StringifyItems(_)
RECURSIVE Stringify(_)
StringifyEntries(es) ==
  IF es = <<>> THEN <<>>
  ELSE IF Head(es)[2].t = "undefined" THEN StringifyEntries(Tail(es))
  ELSE << <<Head(es)[1], Stringify(Head(es)[2])>> >> \o StringifyEntries(Tail(es))
StringifyItems(xs) ==
  [i \in 1..Len(xs) |-> IF xs[i].t = "undefined" THEN JNull ELSE Stringify(xs[i])]
Stringify(v) ==
  CASE v.t = "obj" -> JObj(StringifyEntries(v.es))
    [] v.t = "arr" -> JArr(StringifyItems(v.xs))
    [] v.t = "NaN" -> JNull
    [] OTHER -> v

\* The text of a tool response.  fmt "json": v is the document
\* JSON.stringify(x, null, 2) wrote; fmt "undefined": JSON.stringify was
\* given undefined and returned no string; fmt "plain": v is plain text.
JsonText(x) ==
  IF x.t = "undefined" THEN [fmt |-> "undefined", v |-> JUndef]
  ELSE [fmt |-> "json", v |-> Stringify(x)]
PlainText(str) == [fmt |-> "plain", v |-> str]

\* A ToolResponse: isError is undefined unless the handler sets it.
ToolResponse(text, isError) == [text |-> text, isError |-> isError]
NoToolResponse == [text |-> [fmt |-> "none", v |-> JUndef], isError |-> JUndef]

\* ------------------------------------------------------ Markdown rendering
\* The Markdown text is the sequence of the lines that lines.join('\n')
\* joins.  A line is a string; the line that holds
\* JSON.stringify(value, null, 2) is a JsonLine that keeps the document.

LowerCase == <<"a", "b", "c", "d", "e", "f", "g", "h", "i", "j", "k", "l", "m",
               "n", "o", "p", "q", "r", "s", "t", "u", "v", "w", "x", "y", "z">>
UpperCase == <<"A", "B", "C", "D", "E", "F", "G", "H", "I", "J", "K", "L", "M",
               "N", "O", "P", "Q", "R", "S", "T", "U", "V", "W", "X", "Y", "Z">>
\* c.toUpperCase() for one character.
ToUpperCase(c) ==
  IF \E i \in 1..26 : LowerCase[i] = c
  THEN UpperCase[CHOOSE i \in 1..26 : LowerCase[i] = c]
  ELSE c

\* The words the formatter capitalizes, as <<str.charAt(0), str.slice(1)>>.
CharAt0Slice1(str) ==
  CASE str = "task" -> <<"t", "ask">>
    [] str = "tasks" -> <<"t", "asks">>
    [] str = "workspace" -> <<"w", "orkspace">>
    [] str = "custom_fields" -> <<"c", "ustom_fields">>
    [] str = "project_statuses" -> <<"p", "roject_statuses">>
    [] str = "goal_relationships" -> <<"g", "oal_relationships">>
    [] str = "attachments" -> <<"a", "ttachments">>
    [] str = "typeahead_results" -> <<"t", "ypeahead_results">>
    [] str = "widgets" -> <<"w", "idgets">>
    [] str = "gid" -> <<"g", "id">>
    [] str = "name" -> <<"n", "ame">>
    [] str = "due" -> <<"d", "ue">>
    [] str = "on" -> <<"o", "n">>
    [] str = "completed" -> <<"c", "ompleted">>
    [] str = "assignee" -> <<"a", "ssignee">>
    [] str = "tags" -> <<"t", "ags">>
    [] str = "num" -> <<"n", "um">>
    [] str = "likes" -> <<"l", "ikes">>
    [] str = "notes" -> <<"n", "otes">>
    [] str = "email" -> <<"e", "mail">>

\* key.split('_')
SplitUnderscore(key) ==
  CASE key = "due_on" -> <<"due", "on">>
    [] key = "num_likes" -> <<"num", "likes">>
    [] OTHER -> <<key>>

\* entityType.replace(/s$/, '')
StripFinalS(entityType) ==
  CASE entityType = "tasks" -> "task"
    [] entityType = "custom_fields" -> "custom_field"
    [] OTHER -> entityType

\* capitalize(str): str.charAt(0).toUpperCase() + str.slice(1)
capitalize(str) ==
  JStr(<<ToUpperCase(CharAt0Slice1(str)[1]), CharAt0Slice1(str)[2]>>)

\* strs.join(sep) for a sequence of strings.
RECURSIVE Join(_, _)
Join(strs, sep) ==
  IF strs = <<>> THEN JStr(<<>>)
  ELSE IF Tail(strs) = <<>> THEN Head(strs)
  ELSE Concat(Concat(Head(strs), Str(sep)), Join(Tail(strs), sep))

\* formatKey(key): snake_case to Title Case.
formatKey(key) ==
  LET words == SplitUnderscore(key)
  IN Join([i \in 1..Len(words) |-> capitalize(words[i])], " ")

JsonLine(v) == [t |-> "json", v |-> Stringify(v)]

\* The character U+0060, which a string literal of this notation cannot hold.
GraveAccent == "U+0060"
\* The lines that open and close a fenced JSON code block.
FenceOpen == JStr(<<GraveAccent, GraveAccent, GraveAccent, "json">>)
FenceClose == JStr(<<GraveAccent, GraveAccent, GraveAccent>>)

\* A table line `| c1 | c2 | ... |`.
TableLine(cells) == Concat(Concat(Str("| "), Join(cells, " | ")), Str(" |"))

\* The rows come out last task first.
formatTasksTable_Reversed(tasks) ==
  << Str("| GID | Name | Assignee | Due | Completed |"), Str("|---|---|---|---|---|") >>
  \o [i \in 1..Len(tasks) |->
        LET task == tasks[Len(tasks) + 1 - i]
        IN TableLine(<< Template(Get(task, "gid")),
                        Template(Or(Get(task, "name"), Str("-"))),
                        Template(Or(OptGet(Get(task, "assignee"), "name"), Str("-"))),
                        Template(Or(Or(Get(task, "due_on"), Get(task, "due_at")), Str("-"))),
                        Str(IF Truthy(Get(task, "completed")) THEN "Yes" ELSE "No") >>)]
\* formatTasksTable(tasks): the header, the separator, one line per task.
formatTasksTable(tasks) ==
  << Str("| GID | Name | Assignee | Due | Completed |"), Str("|---|---|---|---|---|") >>
  \o [i \in 1..Len(tasks) |->
        LET task == tasks[i]
        IN TableLine(<< Template(Get(task, "gid")),
                        Template(Or(Get(task, "name"), Str("-"))),
                        Template(Or(OptGet(Get(task, "assignee"), "name"), Str("-"))),
                        Template(Or(Or(Get(task, "due_on"), Get(task, "due_at")), Str("-"))),
                        Str(IF Truthy(Get(task, "completed")) THEN "Yes" ELSE "No") >>)]

\* Every key of the first item is a column.
GenericColumns_AllKeys(first) == [i \in 1..Len(first.es) |-> first.es[i][1]]
\* Object.keys(first).slice(0, 5)
GenericColumns(first) ==
  [i \in 1..(IF Len(first.es) < 5 THEN Len(first.es) ELSE 5) |-> first.es[i][1]]

\* formatGenericTable(items), items not empty: the columns are the first five
\* keys of the first item; a cell is String(record[k] ?? '-').
formatGenericTable(items) ==
  LET keys == GenericColumns(items[1])
      Cell(record, k) ==
        IF Get(record, k).t \in {"undefined", "null"} THEN Str("-")
        ELSE Template(Get(record, k))
  IN << TableLine([i \in 1..Len(keys) |-> Str(keys[i])]),
        Concat(Concat(Str("|"), Join([i \in 1..Len(keys) |-> Str("---")], "|")), Str("|")) >>
     \o [i \in 1..Len(items) |->
           TableLine([j \in 1..Len(keys) |-> Cell(items[i], keys[j])])]

\* Further pages are never announced.
formatPaginatedAsMarkdown_NoMoreLine(data, entityType) ==
  LET items == Get(data, "data").xs
      head ==
        << Concat(Str("## "), capitalize(entityType)), Str(""),
           JStr(<<"**Showing:** ", ToString(Len(items)), " items">>) >>
        \o << Str("") >>
  IN IF Len(items) = 0 THEN head \o << Str("_No items found._") >>
     ELSE IF entityType = "tasks" THEN head \o formatTasksTable(items)
     ELSE head \o formatGenericTable(items)
\* formatPaginatedAsMarkdown(data, entityType): heading, item count, the
\* "More available" line when there is a next page, then the table.  Of the
\* dedicated table formatters the model holds formatTasksTable; the entity
\* types it formats are 'tasks' and types that take the default branch.
formatPaginatedAsMarkdown(data, entityType) ==
  LET items == Get(data, "data").xs
      nextPage == Get(data, "nextPage")
      head ==
        << Concat(Str("## "), capitalize(entityType)), Str(""),
           JStr(<<"**Showing:** ", ToString(Len(items)), " items">>) >>
        \o (IF Truthy(nextPage)
            THEN << Concat(Concat(JStr(<<"**More available:** Yes (offset: ", GraveAccent>>),
                                  Template(Get(nextPage, "offset"))),
                           JStr(<<GraveAccent, ")">>)) >>
            ELSE <<>>)
        \o << Str("") >>
  IN IF Len(items) = 0 THEN head \o << Str("_No items found._") >>
     ELSE IF entityType = "tasks" THEN head \o formatTasksTable(items)
     ELSE head \o formatGenericTable(items)

\* formatArrayAsMarkdown(data, entityType)
formatArrayAsMarkdown(data, entityType) ==
  formatPaginatedAsMarkdown(JObj(<< <<"data", data>> >>), entityType)

\* Nested values are interpolated like scalars.
EntryLines_Inline(key, value) ==
  IF value.t \in {"null", "undefined"} THEN <<>>
  ELSE << Concat(Concat(Concat(Str("**"), formatKey(key)), Str(":** ")),
                 Template(value)) >>
\* The body of the loop of formatObjectAsMarkdown for one entry: nothing for
\* null and undefined, a key line and a fenced JSON block for an object or
\* an array, `**Key:** value` for the rest.
EntryLines(key, value) ==
  IF value.t \in {"null", "undefined"} THEN <<>>
  ELSE IF value.t \in {"obj", "arr"}
  THEN << Concat(Concat(Str("**"), formatKey(key)), Str(":**")),
          FenceOpen, JsonLine(value), FenceClose >>
  ELSE << Concat(Concat(Concat(Str("**"), formatKey(key)), Str(":** ")),
                 Template(value)) >>

\* for (const [key, value] of Object.entries(data))
RECURSIVE FieldLines(_)
FieldLines(es) ==
  IF es = <<>> THEN <<>>
  ELSE EntryLines(Head(es)[1], Head(es)[2]) \o FieldLines(Tail(es))

\* formatObjectAsMarkdown(data, entityType)
formatObjectAsMarkdown(data, entityType) ==
  << Concat(Str("## "), capitalize(StripFinalS(entityType))), Str("") >>
  \o FieldLines(data.es)

\* isPaginatedResponse(data)
isPaginatedResponse(data) ==
  data.t = "obj" /\ HasKey(data, "data") /\ Get(data, "data").t = "arr"

\* formatAsMarkdown(data, entityType)
formatAsMarkdown(data, entityType) ==
  IF isPaginatedResponse(data) THEN formatPaginatedAsMarkdown(data, entityType)
  ELSE IF data.t = "arr" THEN formatArrayAsMarkdown(data, entityType)
  ELSE IF data.t = "obj" THEN formatObjectAsMarkdown(data, entityType)
  ELSE << Template(data) >>

MarkdownText(lines) == [fmt |-> "markdown", v |-> lines]

\* formatResponse(data, format, entityType)
formatResponse(data, format, entityType) ==
  IF format = "markdown"
  THEN ToolResponse(MarkdownText(formatAsMarkdown(data, entityType)), JUndef)
  ELSE ToolResponse(JsonText(data), JUndef)

\* The annotation follows the retryable property of any thrown value.
formatError_AnyRetryable(error) ==
  LET base == Concat(Str("Error: "), Template(error.message))
      message == IF error.retryable THEN Concat(base, Str(" (retryable)")) ELSE base
  IN ToolResponse(JsonText(JObj(<< <<"error", message>>,
                                   <<"details", formatErrorForLogging(error)>> >>)),
                  JBool(TRUE))
\* formatError(error): the error envelope {error, details}, isError: true.
\* The three branches: an AsanaApiError, another Error, any other value.
formatError(error) ==
  LET base == Concat(Str("Error: "), error.message)
      message == IF error.isApi
                 THEN (IF error.retryable THEN Concat(base, Str(" (retryable)")) ELSE base)
                 ELSE IF error.isError THEN base
                 ELSE Concat(Str("Error: "), Template(error.message))
  IN ToolResponse(JsonText(JObj(<< <<"error", message>>,
                                   <<"details", formatErrorForLogging(error)>> >>)),
                  JBool(TRUE))

\* -------------------------------------------------------------------- tools
\* One tool of each handler shape.  The registered handlers all have the form
\*   try { r = await client.m(args); return <response built from r> }
\*   catch (error) { return formatError(error) }
\* but asana_test_connection, whose client method catches the error itself.

GetTool == "asana_get_workspace"
ListTool == "asana_list_workspaces"
UpdateTool == "asana_update_workspace"
DeleteTool == "asana_delete_task"
TestTool == "asana_test_connection"
CreateTool == "asana_create_task"
SearchTool == "asana_search_tasks"
Tools == {GetTool, ListTool, UpdateTool, DeleteTool, TestTool, CreateTool, SearchTool}

\* The tools whose client method goes through requestPaginated.
IsPaginated(tool) == tool \in {ListTool, SearchTool}

Gids == {"12345"}
Names == {"Acme"}
Limits == {JUndef, JNum(10)}
Offsets == {JUndef, Str("abc")}
Notes == {"Details"}
Texts == {"report"}
\* format: z.enum(['json', 'markdown']).default('json'); the model varies the
\* format of asana_get_workspace.
Formats == {"json", "markdown"}

\* The schema-validated arguments a tool can be invoked with.
ToolArgs(tool) ==
  [gid : IF tool \in {GetTool, UpdateTool, DeleteTool} THEN {Str(g) : g \in Gids}
         ELSE {JUndef},
   name : IF tool \in {UpdateTool, CreateTool} THEN {Str(n) : n \in Names}
          ELSE {JUndef},
   limit : IF IsPaginated(tool) THEN Limits ELSE {JUndef},
   offset : IF IsPaginated(tool) THEN Offsets ELSE {JUndef},
   workspace : IF tool = CreateTool THEN {JUndef} \cup {Str(g) : g \in Gids}
               ELSE IF tool = SearchTool THEN {Str(g) : g \in Gids}
               ELSE {JUndef},
   notes : IF tool = CreateTool THEN {JUndef} \cup {Str(n) : n \in Notes}
           ELSE {JUndef},
   text : IF tool = SearchTool THEN {JUndef} \cup {Str(x) : x \in Texts}
          ELSE {JUndef},
   format : IF tool = GetTool THEN Formats ELSE {"json"}]

\* The limit and offset values a caller can put in the arguments of a list
\* tool: integers inside and outside the schema's range, a number that is no
\* integer, a string where a number is expected and a number where a string
\* is expected.
RawLimits ==
  {JUndef, JNum(0 - 1), JNum(0), JNum(1), JNum(10), JNum(100), JNum(101),
   JDec(1, 5), Str("10")}
RawOffsets == {JUndef, Str(""), Str("abc"), JNum(5)}

\* The arguments a caller can send for a tool, before the schema is applied.
RawArgs(tool) ==
  IF IsPaginated(tool)
  THEN {[args EXCEPT !.limit = limit, !.offset = offset] :
          args \in ToolArgs(tool), limit \in RawLimits, offset \in RawOffsets}
  ELSE ToolArgs(tool)

\* The schema has no upper bound.
LimitSchema_NoMax(v) ==
  v.t = "undefined" \/ (v.t = "num" /\ v.n >= 1)
\* limit: z.number().int().min(1).max(100).optional()
LimitSchema(v) ==
  v.t = "undefined" \/ (v.t = "num" /\ v.n >= 1 /\ v.n <= 100)
\* offset: z.string().optional()
OffsetSchema(v) == v.t \in {"undefined", "str"}

\* Whether the tool's input schema accepts the arguments.
SchemaAccepts(tool, args) ==
  IsPaginated(tool) => (LimitSchema(args.limit) /\ OffsetSchema(args.offset))

\* The path of the endpoint the tool's client method builds: getWorkspace,
\* listWorkspaces, updateWorkspace, deleteTask, createTask, searchTasks,
\* getMe.
Endpoint(tool, args) ==
  CASE tool = GetTool -> Concat(Str("/workspaces/"), args.gid)
    [] tool = ListTool -> Str("/workspaces")
    [] tool = UpdateTool -> Concat(Str("/workspaces/"), args.gid)
    [] tool = DeleteTool -> Concat(Str("/tasks/"), args.gid)
    [] tool = CreateTool -> Str("/tasks")
    [] tool = SearchTool ->
         Concat(Concat(Str("/workspaces/"), args.workspace), Str("/tasks/search"))
    [] tool = TestTool -> Str("/users/me")

\* A completed flag is always sent.
TaskCreateInput_Defaults(args) ==
  JObj(<< <<"name", args.name>>, <<"workspace", args.workspace>>,
          <<"notes", args.notes>>, <<"completed", JBool(FALSE)>> >>)
\* The object asana_create_task hands to client.createTask: one entry per
\* tool argument, undefined for an argument that was not given.  Of the
\* optional arguments the model varies workspace and notes.
TaskCreateInput(args) ==
  JObj(<< <<"name", args.name>>, <<"workspace", args.workspace>>,
          <<"projects", JUndef>>, <<"assignee", JUndef>>, <<"due_on", JUndef>>,
          <<"due_at", JUndef>>, <<"start_on", JUndef>>, <<"notes", args.notes>>,
          <<"html_notes", JUndef>>, <<"completed", JUndef>>, <<"tags", JUndef>>,
          <<"parent", JUndef>>, <<"resource_subtype", JUndef>> >>)

\* The params object asana_search_tasks hands to client.searchTasks: the
\* search filters, then limit and offset.  Of the filters the model varies
\* text.
TaskSearchParams(args) ==
  JObj(<< <<"text", args.text>>, <<"completed", JUndef>>, <<"assignee.any", JUndef>>,
          <<"projects.any", JUndef>>, <<"tags.any", JUndef>>,
          <<"due_on.before", JUndef>>, <<"due_on.after", JUndef>>,
          <<"sort_by", JUndef>>, <<"sort_ascending", JUndef>>,
          <<"limit", args.limit>>, <<"offset", args.offset>> >>)

\* The query searchTasks writes into its endpoint: for every entry of params
\* that is neither undefined nor null, queryParams.set(key, String(value)).
RECURSIVE SearchQuery(_)
SearchQuery(es) ==
  IF es = <<>> THEN <<>>
  ELSE (IF Head(es)[2].t \in {"undefined", "null"} THEN <<>>
        ELSE << <<Head(es)[1], Template(Head(es)[2])>> >>)
       \o SearchQuery(Tail(es))

\* The query parameters the client method itself puts in the endpoint it
\* hands to requestPaginated.
EndpointQuery(tool, args) ==
  IF tool = SearchTool THEN SearchQuery(TaskSearchParams(args).es) ELSE <<>>

\* The fetch() call the client method makes with the given auth headers.  The
\* URL is the endpoint's path and the query parameters in the order they
\* appear in it: those of the endpoint, then those requestPaginated appends.
ClientFetch(tool, args, headers) ==
  CASE IsPaginated(tool) ->
         FetchCall(Endpoint(tool, args),
                   EndpointQuery(tool, args)
                   \o PaginatedQuery([limit |-> args.limit, offset |-> args.offset]),
                   "GET", headers, JUndef)
    [] tool = UpdateTool ->
         FetchCall(Endpoint(tool, args), <<>>, "PUT", headers,
                   JsonText(JObj(<< <<"data", JObj(<< <<"name", args.name>> >>)>> >>)))
    [] tool = DeleteTool ->
         FetchCall(Endpoint(tool, args), <<>>, "DELETE", headers, JUndef)
    [] tool = CreateTool ->
         FetchCall(Endpoint(tool, args), <<>>, "POST", headers,
                   JsonText(JObj(<< <<"data", TaskCreateInput(args)>> >>)))
    [] OTHER ->
         FetchCall(Endpoint(tool, args), <<>>, "GET", headers, JUndef)

\* The outcome of the adapter call once fetch has settled with resp.
AdapterOutcome(tool, args, resp) ==
  IF IsPaginated(tool)
  THEN requestPaginated(Endpoint(tool, args), resp)
  ELSE request(Endpoint(tool, args), resp)

\* client.testConnection(), given the outcome of getMe(): never throws.
testConnection(out) ==
  IF out.ok /\ out.value.t \notin {"undefined", "null"}
  THEN JObj(<< <<"connected", JBool(TRUE)>>,
               <<"message",
                 Concat(Concat(Concat(Str("Connected as "), Template(Get(out.value, "name"))),
                               Str(" (")),
                        Concat(Or(Get(out.value, "email"), Str("no email")), Str(")")))>>,
               <<"user", out.value>> >>)
  ELSE IF out.ok
  THEN JObj(<< <<"connected", JBool(FALSE)>>,
               <<"message", Str("Cannot read properties of undefined")>> >>)
  ELSE JObj(<< <<"connected", JBool(FALSE)>>, <<"message", out.error.message>> >>)

\* ---------------------------------------------------------------- transport

Req == 1..MaxReq
Paths == {"/health", "/mcp", "/sse", "/"}
Methods == {"GET", "POST"}

\* The access token tenant r sends: one token per tenant, all different.
TokenOf(r) == Str("token-" \o ToString(r))
\* request.headers.get('X-Asana-Access-Token') of a request of tenant r:
\* null when the header is missing, "" when it is empty.
TokenHeaders(r) == {JNull, Str(""), TokenOf(r)}

\* aborted is request.signal.aborted: the peer has dropped the connection.
NoInbound == [path |-> "", method |-> "", token |-> JNull, aborted |-> FALSE]
NoCredentials == [accessToken |-> JUndef]
NoServer ==
  [built |-> FALSE, client |-> NoCredentials, tools |-> {}, registered |-> <<>>]
NoInvocation ==
  [tool |-> "", args |-> [gid |-> JUndef, name |-> JUndef, limit |-> JUndef,
                          offset |-> JUndef, workspace |-> JUndef,
                          notes |-> JUndef, text |-> JUndef, format |-> ""]]
NoOutcome == [ok |-> FALSE, value |-> JUndef, error |-> NoError, bodyReads |-> 0]
NoHttpResponse ==
  [status |-> 0, body |-> [fmt |-> "none", v |-> JUndef], result |-> NoToolResponse]

\* new Response(body, {status}) built by the Worker itself.
HttpResponse(status, body) == [status |-> status, body |-> body, result |-> NoToolResponse]
\* The response of the MCP transport handler: the JSON-RPC reply that carries
\* the tool's result.
McpResponse(result) ==
  [status |-> 200, body |-> [fmt |-> "mcp", v |-> JUndef], result |-> result]

\* The reply of the MCP transport handler to a tool call whose arguments the
\* tool's schema rejects: the tool handler is not run.
McpInvalidArguments ==
  [status |-> 200, body |-> [fmt |-> "mcp-invalid-arguments", v |-> JUndef],
   result |-> NoToolResponse]

\* The arguments of a formatter call: formatError(error) or
\* formatResponse(data, format, entityType).
NoFormatCall ==
  [fn |-> "none", error |-> NoError, data |-> JUndef, format |-> "", entityType |-> ""]
FormatErrorCall(error) ==
  [fn |-> "formatError", error |-> error, data |-> JUndef, format |-> "",
   entityType |-> ""]
FormatResponseCall(data, format, entityType) ==
  [fn |-> "formatResponse", error |-> NoError, data |-> data, format |-> format,
   entityType |-> entityType]

VARIABLES
  pc,            \* where each request is in its lifecycle
  inbound,       \* the request as received: path, method, token header
  credentials,   \* the TenantCredentials parsed for the request
  server,        \* the McpServer (tool registry and client) built for it
  invocation,    \* the tool call the MCP handler received
  calls,         \* the outbound fetch() calls made for the request, in order
  upstream,      \* the settled fetch() of the request
  outcome,       \* what the adapter call returned or threw
  httpResponse,  \* the Response returned to the caller
  formatCall,    \* a call of the response formatter: its arguments
  formatResult,  \* the ToolResponse that call returned
  agent          \* the AsanaMcpAgent object of the stateful mode

vars ==
  <<pc, inbound, credentials, server, invocation, calls, upstream, outcome,
    httpResponse, formatCall, formatResult, agent>>

\* ------------------------------------------------------------ tool handlers

\* A repeated call is answered with a marker that it was seen before.
asana_get_workspace_MarksRepeats(args, workspace) ==
  IF \E q \in Req : /\ pc[q] = "responded"
                    /\ invocation[q].tool = GetTool
                    /\ invocation[q].args = args
  THEN formatResponse(JObj(<< <<"repeated", JBool(TRUE)>>, <<"workspace", workspace>> >>),
                      args.format, "workspace")
  ELSE formatResponse(workspace, args.format, "workspace")
\* The try block of the asana_get_workspace handler once
\* client.getWorkspace(workspaceGid) has returned.
asana_get_workspace(args, workspace) ==
  formatResponse(workspace, args.format, "workspace")

\* The tool handler's return value, given the outcome of its client call.
ToolHandler(tool, args, out) ==
  CASE tool = TestTool -> ToolResponse(JsonText(testConnection(out)), JUndef)
    [] ~out.ok -> formatError(out.error)
    [] tool = GetTool -> asana_get_workspace(args, out.value)
    [] tool = ListTool -> formatResponse(out.value, "json", "workspaces")
    [] tool = SearchTool -> formatResponse(out.value, "json", "tasks")
    [] tool = UpdateTool ->
         ToolResponse(JsonText(JObj(<< <<"success", JBool(TRUE)>>,
                                       <<"message", Str("Workspace updated")>>,
                                       <<"workspace", out.value>> >>)), JUndef)
    [] tool = DeleteTool ->
         ToolResponse(JsonText(JObj(<< <<"success", JBool(TRUE)>>,
                                       <<"message", Str("Task deleted")>> >>)), JUndef)
    [] tool = CreateTool ->
         ToolResponse(JsonText(JObj(<< <<"success", JBool(TRUE)>>,
                                       <<"message", Str("Task created")>>,
                                       <<"task", out.value>> >>)), JUndef)

\* ---------------------------------------------------------- Worker handler

\* parseTenantCredentials(request)
parseTenantCredentials(inboundRequest) ==
  [accessToken |-> Or(inboundRequest.token, Str(""))]

validateCredentials_NullOnly(creds) == creds.accessToken.t \notin {"null", "undefined"}
\* validateCredentials(credentials): TRUE when it returns, FALSE when it throws.
validateCredentials(creds) == Truthy(creds.accessToken)

MissingCredentialsMessage ==
  Str("Missing credentials. Provide X-Asana-Access-Token header with your Asana Personal Access Token.")

\* The 401 the Worker answers when validation throws.
UnauthorizedResponse ==
  HttpResponse(401,
    JsonText(JObj(<< <<"error", Str("Unauthorized")>>,
                     <<"message", MissingCredentialsMessage>>,
                     <<"required_headers", JArr(<<Str(TokenHeader)>>)>> >>)))

\* ------------------------------------------------------------ tool names

\* registerWorkspaceTools(server, client): the names it registers, in order.
registerWorkspaceTools ==
  << "asana_list_workspaces", "asana_get_workspace", "asana_update_workspace",
     "asana_add_user_to_workspace", "asana_remove_user_from_workspace",
     "asana_get_me", "asana_get_user", "asana_list_workspace_users" >>

\* registerTeamTools(server, client): the names it registers, in order.
registerTeamTools ==
  << "asana_create_team", "asana_get_team", "asana_update_team",
     "asana_list_teams", "asana_list_user_teams", "asana_list_team_users",
     "asana_add_user_to_team", "asana_remove_user_from_team" >>

\* registerProjectTools(server, client): the names it registers, in order.
registerProjectTools ==
  << "asana_create_project", "asana_get_project", "asana_update_project",
     "asana_delete_project", "asana_duplicate_project", "asana_list_projects",
     "asana_get_project_task_counts", "asana_add_members_to_project",
     "asana_remove_members_from_project", "asana_create_project_status",
     "asana_list_project_statuses" >>

\* registerSectionTools(server, client): the names it registers, in order.
registerSectionTools ==
  << "asana_create_section", "asana_get_section", "asana_update_section",
     "asana_delete_section", "asana_list_project_sections",
     "asana_add_task_to_section", "asana_move_section" >>

\* registerTaskTools(server, client): the names it registers, in order.
registerTaskTools ==
  << "asana_create_task", "asana_get_task", "asana_update_task",
     "asana_delete_task", "asana_duplicate_task", "asana_list_tasks",
     "asana_list_project_tasks", "asana_list_section_tasks",
     "asana_search_tasks", "asana_create_subtask", "asana_list_subtasks",
     "asana_set_parent_task", "asana_add_project_to_task",
     "asana_remove_project_from_task", "asana_add_tag_to_task",
     "asana_remove_tag_from_task", "asana_add_followers_to_task",
     "asana_list_task_dependencies", "asana_add_task_dependencies",
     "asana_remove_task_dependencies", "asana_list_task_dependents" >>

\* registerTagTools(server, client): the names it registers, in order.
registerTagTools ==
  << "asana_create_tag", "asana_get_tag", "asana_update_tag",
     "asana_delete_tag", "asana_list_tags", "asana_list_task_tags",
     "asana_list_tag_tasks" >>

\* registerStoryTools(server, client): the names it registers, in order.
registerStoryTools ==
  << "asana_add_comment", "asana_get_story", "asana_update_comment",
     "asana_delete_comment", "asana_list_task_stories" >>

\* registerAttachmentTools(server, client): the names it registers, in order.
registerAttachmentTools ==
  << "asana_get_attachment", "asana_delete_attachment",
     "asana_list_task_attachments" >>

\* registerCustomFieldTools(server, client): the names it registers, in order.
registerCustomFieldTools ==
  << "asana_create_custom_field", "asana_get_custom_field",
     "asana_update_custom_field", "asana_delete_custom_field",
     "asana_list_custom_fields", "asana_add_custom_field_to_project",
     "asana_remove_custom_field_from_project" >>

\* registerPortfolioTools(server, client): the names it registers, in order.
registerPortfolioTools ==
  << "asana_create_portfolio", "asana_get_portfolio", "asana_update_portfolio",
     "asana_delete_portfolio", "asana_list_portfolios",
     "asana_list_portfolio_items", "asana_add_item_to_portfolio",
     "asana_remove_item_from_portfolio", "asana_add_members_to_portfolio",
     "asana_remove_members_from_portfolio" >>

\* The goal registration repeats the portfolio tools.
registerGoalTools_AsPortfolio == registerPortfolioTools
\* registerGoalTools(server, client): the names it registers, in order.
registerGoalTools ==
  << "asana_create_goal", "asana_get_goal", "asana_update_goal",
     "asana_delete_goal", "asana_list_goals", "asana_add_followers_to_goal",
     "asana_list_goal_parent_goals", "asana_list_goal_relationships",
     "asana_add_supporting_relationship",
     "asana_remove_supporting_relationship" >>

\* registerWebhookTools(server, client): the names it registers, in order.
registerWebhookTools ==
  << "asana_create_webhook", "asana_get_webhook", "asana_update_webhook",
     "asana_delete_webhook", "asana_list_webhooks" >>

\* registerTypeaheadTools(server, client): the names it registers, in order.
registerTypeaheadTools ==
  << "asana_typeahead" >>

\* The `tools` list of the capability document.
CatalogToolNames ==
  << "asana_list_workspaces", "asana_get_workspace", "asana_update_workspace",
     "asana_add_user_to_workspace", "asana_remove_user_from_workspace",
     "asana_get_me", "asana_get_user", "asana_list_workspace_users",
     "asana_create_team", "asana_get_team", "asana_update_team",
     "asana_list_teams", "asana_list_user_teams", "asana_list_team_users",
     "asana_add_user_to_team", "asana_remove_user_from_team",
     "asana_create_project", "asana_get_project", "asana_update_project",
     "asana_delete_project", "asana_duplicate_project", "asana_list_projects",
     "asana_get_project_task_counts", "asana_add_members_to_project",
     "asana_remove_members_from_project", "asana_create_project_status",
     "asana_list_project_statuses", "asana_create_section",
     "asana_get_section", "asana_update_section", "asana_delete_section",
     "asana_list_project_sections", "asana_add_task_to_section",
     "asana_move_section", "asana_create_task", "asana_get_task",
     "asana_update_task", "asana_delete_task", "asana_duplicate_task",
     "asana_list_tasks", "asana_list_project_tasks",
     "asana_list_section_tasks", "asana_search_tasks", "asana_create_subtask",
     "asana_list_subtasks", "asana_set_parent_task",
     "asana_add_project_to_task", "asana_remove_project_from_task",
     "asana_add_tag_to_task", "asana_remove_tag_from_task",
     "asana_add_followers_to_task", "asana_list_task_dependencies",
     "asana_add_task_dependencies", "asana_remove_task_dependencies",
     "asana_list_task_dependents", "asana_create_tag", "asana_get_tag",
     "asana_update_tag", "asana_delete_tag", "asana_list_tags",
     "asana_list_task_tags", "asana_list_tag_tasks", "asana_add_comment",
     "asana_get_story", "asana_update_comment", "asana_delete_comment",
     "asana_list_task_stories", "asana_get_attachment",
     "asana_delete_attachment", "asana_list_task_attachments",
     "asana_create_custom_field", "asana_get_custom_field",
     "asana_update_custom_field", "asana_delete_custom_field",
     "asana_list_custom_fields", "asana_add_custom_field_to_project",
     "asana_remove_custom_field_from_project", "asana_create_portfolio",
     "asana_get_portfolio", "asana_update_portfolio", "asana_delete_portfolio",
     "asana_list_portfolios", "asana_list_portfolio_items",
     "asana_add_item_to_portfolio", "asana_remove_item_from_portfolio",
     "asana_add_members_to_portfolio", "asana_remove_members_from_portfolio",
     "asana_create_goal", "asana_get_goal", "asana_update_goal",
     "asana_delete_goal", "asana_list_goals", "asana_add_followers_to_goal",
     "asana_list_goal_parent_goals", "asana_list_goal_relationships",
     "asana_add_supporting_relationship",
     "asana_remove_supporting_relationship", "asana_create_webhook",
     "asana_get_webhook", "asana_update_webhook", "asana_delete_webhook",
     "asana_list_webhooks", "asana_typeahead", "asana_test_connection" >>

\* The tool names README.md lists under "Available Tools", in order.
ReadmeToolNames ==
  << "asana_list_workspaces", "asana_get_workspace", "asana_list_teams",
     "asana_create_team", "asana_list_projects", "asana_get_project",
     "asana_create_project", "asana_update_project", "asana_delete_project",
     "asana_list_tasks", "asana_get_task", "asana_create_task",
     "asana_update_task", "asana_delete_task", "asana_list_sections",
     "asana_create_section", "asana_list_tags", "asana_create_tag",
     "asana_list_goals", "asana_get_goal", "asana_list_webhooks",
     "asana_create_webhook" >>

\* The names createStatelessServer registers, in the order of its calls.
RegisteredToolNames ==
  registerWorkspaceTools \o registerTeamTools \o registerProjectTools
  \o registerSectionTools \o registerTaskTools \o registerTagTools
  \o registerStoryTools \o registerAttachmentTools \o registerCustomFieldTools
  \o registerPortfolioTools \o registerGoalTools \o registerWebhookTools
  \o registerTypeaheadTools \o <<TestTool>>

HealthResponse ==
  HttpResponse(200, JsonText(JObj(<< <<"status", Str("ok")>>,
                                     <<"server", Str(SERVER_NAME)>> >>)))

SseResponse ==
  HttpResponse(501,
    PlainText(Str("SSE endpoint requires Durable Objects. Enable in wrangler.jsonc.")))

\* The array literal of the given strings.
StrArray(names) == [i \in 1..Len(names) |-> Str(names[i])]

\* The default response: the capability document.
CapabilityResponse ==
  HttpResponse(200, JsonText(JObj(<<
    <<"name", Str(SERVER_NAME)>>,
    <<"version", Str(SERVER_VERSION)>>,
    <<"description", Str("Multi-tenant Asana MCP Server")>>,
    <<"endpoints",
      JObj(<< <<"mcp", Str("/mcp (POST) - Streamable HTTP MCP endpoint")>>,
              <<"health", Str("/health - Health check")>> >>)>>,
    <<"authentication",
      JObj(<< <<"description", Str("Pass your Asana access token via request headers")>>,
              <<"required_headers",
                JObj(<< <<TokenHeader,
                          Str("Asana Personal Access Token or OAuth access token")>> >>)>> >>)>>,
    <<"tools", JArr(StrArray(CatalogToolNames))>> >>)))

\* A client kept in a module-level variable and reused by later requests.
createStatelessServer_Shared(creds) ==
  [built |-> TRUE,
   client |-> IF \E q \in Req : server[q].built
              THEN server[CHOOSE q \in Req : server[q].built].client
              ELSE creds,
   tools |-> Tools, registered |-> RegisteredToolNames]
\* createStatelessServer(credentials): a new McpServer whose tools close over
\* a new client that holds these credentials.
createStatelessServer(creds) ==
  [built |-> TRUE, client |-> creds, tools |-> Tools,
   registered |-> RegisteredToolNames]

\* ----------------------------------------------------------- stateful mode

\* Most invocations of init() on one agent object.
MaxInits == 2

\* What the runtime hands to an agent: whether the MCP_SESSIONS binding is
\* configured, and the access token (if any) in the session's props.
AgentEnvs == [sessions : BOOLEAN, token : {JUndef, Str(""), Str("token-1")}]

\* No agent object exists.
NoAgent ==
  [state |-> "none", env |-> [sessions |-> FALSE, token |-> JUndef],
   registered |-> <<>>, calls |-> <<>>, inits |-> 0, error |-> NoError]

\* new AsanaMcpAgent(...): the field initializer builds an McpServer with no
\* tool.
NewAsanaMcpAgent(env) ==
  [state |-> "constructed", env |-> env, registered |-> <<>>, calls |-> <<>>,
   inits |-> 0, error |-> NoError]

\* init() registers the tools when the session carries a token.
AsanaMcpAgent_init_WhenTokenPresent(a) ==
  IF Truthy(a.env.token)
  THEN [a EXCEPT !.state = "ready", !.registered = RegisteredToolNames,
                 !.inits = @ + 1]
  ELSE [a EXCEPT !.state = "failed", !.inits = @ + 1,
                 !.error = RuntimeError("Error",
                   JStr(<<"Stateful mode (McpAgent) is not supported for multi-tenant deployments. ",
                          "Use the stateless /mcp endpoint with X-Asana-Access-Token header instead.">>))]
\* AsanaMcpAgent.init(): throws, and does nothing else.
AsanaMcpAgent_init(a) ==
  [a EXCEPT !.state = "failed", !.inits = @ + 1,
            !.error = RuntimeError("Error",
              JStr(<<"Stateful mode (McpAgent) is not supported for multi-tenant deployments. ",
                     "Use the stateless /mcp endpoint with X-Asana-Access-Token header instead.">>))]

\* fetch(url, init): the call is appended to the request's outbound calls.
fetch(made, call) == Append(made, call)

Init ==
  /\ pc = [r \in Req |-> "idle"]
  /\ inbound = [r \in Req |-> NoInbound]
  /\ credentials = [r \in Req |-> NoCredentials]
  /\ server = [r \in Req |-> NoServer]
  /\ invocation = [r \in Req |-> NoInvocation]
  /\ calls = [r \in Req |-> <<>>]
  /\ upstream = [r \in Req |-> Rejected]
  /\ outcome = [r \in Req |-> NoOutcome]
  /\ httpResponse = [r \in Req |-> NoHttpResponse]
  /\ formatCall = NoFormatCall
  /\ formatResult = NoToolResponse
  /\ agent = NoAgent

\* A request reaches the Worker.
Arrive(r, path, method, token) ==
  /\ pc[r] = "idle"
  /\ inbound' = [inbound EXCEPT ![r] = [path |-> path, method |-> method, token |-> token,
                                       aborted |-> FALSE]]
  /\ pc' = [pc EXCEPT ![r] = "unauthenticated"]
  /\ UNCHANGED <<credentials, server, invocation, calls, upstream, outcome, httpResponse,
               formatCall, formatResult, agent>>

\* The health check answers GET only.
Destination_HealthGetOnly(path, method) ==
  IF path = "/health" /\ method = "GET" THEN "health"
  ELSE IF path = "/mcp" /\ method = "POST" THEN "mcp"
  ELSE IF path = "/sse" THEN "sse"
  ELSE "default"
\* The SSE notice answers GET only.
Destination_SseGetOnly(path, method) ==
  IF path = "/health" THEN "health"
  ELSE IF path = "/mcp" /\ method = "POST" THEN "mcp"
  ELSE IF path = "/sse" /\ method = "GET" THEN "sse"
  ELSE "default"
\* /mcp is served whatever the method.
Destination_McpAnyMethod(path, method) ==
  IF path = "/health" THEN "health"
  ELSE IF path = "/mcp" THEN "mcp"
  ELSE IF path = "/sse" THEN "sse"
  ELSE "default"
\* The branch of fetch(request, env, ctx) a request takes: the tests on
\* url.pathname and request.method, in the order of the code.
Destination(path, method) ==
  IF path = "/health" THEN "health"
  ELSE IF path = "/mcp" /\ method = "POST" THEN "mcp"
  ELSE IF path = "/sse" THEN "sse"
  ELSE "default"

\* fetch(request, env, ctx) up to the credential check: /health, then
\* POST /mcp, then /sse, then the default response.
Route(r) ==
  /\ pc[r] = "unauthenticated"
  /\ IF Destination(inbound[r].path, inbound[r].method) = "health"
     THEN /\ httpResponse' = [httpResponse EXCEPT ![r] = HealthResponse]
          /\ pc' = [pc EXCEPT ![r] = "responded"]
          /\ UNCHANGED credentials
     ELSE IF Destination(inbound[r].path, inbound[r].method) = "mcp"
     THEN /\ credentials' = [credentials EXCEPT ![r] = parseTenantCredentials(inbound[r])]
          /\ pc' = [pc EXCEPT ![r] = "validating"]
          /\ UNCHANGED httpResponse
     ELSE IF Destination(inbound[r].path, inbound[r].method) = "sse"
     THEN /\ httpResponse' = [httpResponse EXCEPT ![r] = SseResponse]
          /\ pc' = [pc EXCEPT ![r] = "responded"]
          /\ UNCHANGED credentials
     ELSE /\ httpResponse' = [httpResponse EXCEPT ![r] = CapabilityResponse]
          /\ pc' = [pc EXCEPT ![r] = "responded"]
          /\ UNCHANGED credentials
  /\ UNCHANGED <<inbound, server, invocation, calls, upstream, outcome,
               formatCall, formatResult, agent>>

\* The catch block builds the 401 response and does not return.
Validate_FallThrough(r) ==
  /\ pc[r] = "validating"
  /\ IF validateCredentials(credentials[r])
     THEN UNCHANGED httpResponse
     ELSE httpResponse' = [httpResponse EXCEPT ![r] = UnauthorizedResponse]
  /\ pc' = [pc EXCEPT ![r] = "authenticated"]
  /\ UNCHANGED <<inbound, credentials, server, invocation, calls, upstream, outcome,
                 formatCall, formatResult, agent>>
\* try { validateCredentials(credentials) } catch { return 401 }
Validate(r) ==
  /\ pc[r] = "validating"
  /\ IF validateCredentials(credentials[r])
     THEN /\ pc' = [pc EXCEPT ![r] = "authenticated"]
          /\ UNCHANGED httpResponse
     ELSE /\ httpResponse' = [httpResponse EXCEPT ![r] = UnauthorizedResponse]
          /\ pc' = [pc EXCEPT ![r] = "responded"]
  /\ UNCHANGED <<inbound, credentials, server, invocation, calls, upstream, outcome,
               formatCall, formatResult, agent>>

\* const server = createStatelessServer(credentials); the request is handed
\* to createMcpHandler(server).
CreateServer(r) ==
  /\ pc[r] = "authenticated"
  /\ server' = [server EXCEPT ![r] = createStatelessServer(credentials[r])]
  /\ pc' = [pc EXCEPT ![r] = "dispatched"]
  /\ UNCHANGED <<inbound, credentials, invocation, calls, upstream, outcome, httpResponse,
               formatCall, formatResult, agent>>

\* A caller other than the Worker's fetch handler builds a server, and with
\* it a client, from credentials of its own: createStatelessServer and
\* createAsanaClient take them as they are.
CreateClient(r, creds) ==
  /\ pc[r] = "idle"
  /\ credentials' = [credentials EXCEPT ![r] = creds]
  /\ server' = [server EXCEPT ![r] = createStatelessServer(creds)]
  /\ pc' = [pc EXCEPT ![r] = "dispatched"]
  /\ UNCHANGED <<inbound, invocation, calls, upstream, outcome, httpResponse,
                 formatCall, formatResult, agent>>

\* The MCP handler answers a message that calls no tool (initialize,
\* tools/list).
McpNoCall(r) ==
  /\ pc[r] = "dispatched"
  /\ httpResponse' = [httpResponse EXCEPT ![r] = McpResponse(NoToolResponse)]
  /\ pc' = [pc EXCEPT ![r] = "responded"]
  /\ UNCHANGED <<inbound, credentials, server, invocation, calls, upstream, outcome,
               formatCall, formatResult, agent>>

\* The MCP handler receives a call of a registered tool with arguments the
\* tool's schema rejects: it answers without running the tool handler.
RejectArgs(r, tool, args) ==
  /\ pc[r] = "dispatched"
  /\ tool \in server[r].tools
  /\ ~SchemaAccepts(tool, args)
  /\ invocation' = [invocation EXCEPT ![r] = [tool |-> tool, args |-> args]]
  /\ httpResponse' = [httpResponse EXCEPT ![r] = McpInvalidArguments]
  /\ pc' = [pc EXCEPT ![r] = "responded"]
  /\ UNCHANGED <<inbound, credentials, server, calls, upstream, outcome,
                 formatCall, formatResult, agent>>

\* The MCP handler calls a registered tool with arguments its schema
\* accepts: the handler runs its client method up to `await fetch(...)`.
\* getAuthHeaders() throwing ends the handler in its catch before any call
\* is made.
InvokeTool(r, tool, args) ==
  /\ pc[r] = "dispatched"
  /\ tool \in server[r].tools
  /\ SchemaAccepts(tool, args)
  /\ invocation' = [invocation EXCEPT ![r] = [tool |-> tool, args |-> args]]
  /\ LET auth == getAuthHeaders(server[r].client)
     IN IF auth.ok
        THEN /\ calls' = [calls EXCEPT ![r] = fetch(@, ClientFetch(tool, args, auth.headers))]
             /\ pc' = [pc EXCEPT ![r] = "awaiting"]
             /\ UNCHANGED <<outcome, httpResponse>>
        ELSE /\ outcome' = [outcome EXCEPT ![r] = Thrown(auth.error, 0)]
             /\ httpResponse' = [httpResponse EXCEPT ![r] =
                                   McpResponse(ToolHandler(tool, args, Thrown(auth.error, 0)))]
             /\ pc' = [pc EXCEPT ![r] = "responded"]
             /\ UNCHANGED calls
  /\ UNCHANGED <<inbound, credentials, server, upstream,
               formatCall, formatResult, agent>>

\* Where the request goes once its tool handler has the outcome of the
\* client call: the try block returns the response and the catch block
\* returns formatError(error); neither calls the client again.
AfterSettle_Retry(out) ==
  IF ~out.ok /\ out.error.retryable THEN "dispatched" ELSE "responded"
AfterSettle(out) == "responded"

\* fetch settles with resp: the adapter classifies it, the tool handler
\* builds its response and the MCP handler returns it.
UpstreamResponds(r, resp) ==
  /\ pc[r] = "awaiting"
  /\ upstream' = [upstream EXCEPT ![r] = resp]
  /\ LET out == AdapterOutcome(invocation[r].tool, invocation[r].args, resp)
     IN /\ outcome' = [outcome EXCEPT ![r] = out]
        /\ httpResponse' = [httpResponse EXCEPT ![r] =
                              McpResponse(ToolHandler(invocation[r].tool, invocation[r].args, out))]
        /\ pc' = [pc EXCEPT ![r] = AfterSettle(out)]
  /\ UNCHANGED <<inbound, credentials, server, invocation, calls,
               formatCall, formatResult, agent>>

\* The outbound call is cancelled with the inbound connection: fetch rejects
\* with an AbortError and the handler answers with it.
AbortInbound_Cancels(r) ==
  /\ pc[r] = "awaiting"
  /\ ~inbound[r].aborted
  /\ inbound' = [inbound EXCEPT ![r].aborted = TRUE]
  /\ LET out == Thrown(RuntimeError("AbortError", Str("The operation was aborted")), 0)
     IN /\ outcome' = [outcome EXCEPT ![r] = out]
        /\ httpResponse' = [httpResponse EXCEPT ![r] =
                              McpResponse(ToolHandler(invocation[r].tool, invocation[r].args, out))]
  /\ pc' = [pc EXCEPT ![r] = "responded"]
  /\ UNCHANGED <<credentials, server, invocation, calls, upstream,
                 formatCall, formatResult, agent>>
\* The peer drops the inbound connection while the outbound call is in
\* flight: request.signal fires.  The Worker's handler, the tool handler and
\* the client read no signal and register no listener, so nothing else
\* changes.
AbortInbound(r) ==
  /\ pc[r] = "awaiting"
  /\ ~inbound[r].aborted
  /\ inbound' = [inbound EXCEPT ![r].aborted = TRUE]
  /\ UNCHANGED <<pc, credentials, server, invocation, calls, upstream, outcome,
                 httpResponse, formatCall, formatResult, agent>>

\* The runtime constructs the agent object of a session.
ConstructAgent(env) ==
  /\ agent.state = "none"
  /\ agent' = NewAsanaMcpAgent(env)
  /\ UNCHANGED <<pc, inbound, credentials, server, invocation, calls, upstream,
                 outcome, httpResponse, formatCall, formatResult>>

\* The runtime invokes init() on the agent, the first time or again.
InitAgent ==
  /\ agent.state \in {"constructed", "failed"}
  /\ agent.inits < MaxInits
  /\ agent' = AsanaMcpAgent_init(agent)
  /\ UNCHANGED <<pc, inbound, credentials, server, invocation, calls, upstream,
                 outcome, httpResponse, formatCall, formatResult>>

\* ------------------------------------------------------ upstream behaviour

\* The characters a Retry-After value is made of here: digits, a letter (as
\* in an HTTP date) and a sign.
HdrChars == {"0", "3", "a", "-"}
RECURSIVE SeqsUpTo(_, _)
SeqsUpTo(S, n) ==
  IF n = 0 THEN {<<>>}
  ELSE LET shorter == SeqsUpTo(S, n - 1)
       IN shorter \cup {Append(q, c) : q \in shorter, c \in S}
\* response.headers.get('Retry-After'): absent, or a value of up to
\* MaxHdrLen characters.
RetryAfterValues == {JNull} \cup {JChars(cs) : cs \in SeqsUpTo(HdrChars, MaxHdrLen)}

Workspace1 == JObj(<< <<"gid", Str("12345")>>, <<"name", Str("Acme")>> >>)
User1 ==
  JObj(<< <<"gid", Str("7")>>, <<"name", Str("Ada")>>, <<"email", Str("ada@example.com")>> >>)
\* A resource with an empty string, a null, a nested object, an array and a
\* number among its fields.
Task1 ==
  JObj(<< <<"gid", Str("1001")>>, <<"name", Str("")>>, <<"due_on", JNull>>,
          <<"assignee", JObj(<< <<"gid", Str("7")>>, <<"name", Str("Ada")>> >>)>>,
          <<"tags", JArr(<< JObj(<< <<"gid", Str("9")>> >>) >>)>>,
          <<"num_likes", JNum(0)>> >>)
NextPage(offset) ==
  JObj(<< <<"offset", Str(offset)>>, <<"path", Str("/workspaces?offset=" \o offset)>>,
          <<"uri", Str(API_BASE_URL \o "/workspaces?offset=" \o offset)>> >>)

\* Bodies of an error response: not JSON, JSON null, and objects with and
\* without `errors[0].message` and `message` (present, empty or missing).
ErrorBodies ==
  {TextBody, JsonBody(JNull), JsonBody(JObj(<<>>))}
  \cup {JsonBody(JObj(es)) : es \in
         { << <<"errors", JArr(<< JObj(<< <<"message", Str("Invalid field")>> >>) >>)>> >>,
           << <<"message", Str("Server exploded")>> >>,
           << <<"errors", JArr(<< JObj(<< <<"message", Str("Invalid field")>> >>) >>)>>,
              <<"message", Str("Server exploded")>> >>,
           << <<"errors", JArr(<< JObj(<< <<"message", Str("")>> >>) >>)>>,
              <<"message", Str("Server exploded")>> >>,
           << <<"errors", JArr(<<>>)>>, <<"message", Str("Server exploded")>> >>,
           << <<"errors", JArr(<< JObj(<<>>) >>)>> >>,
           << <<"message", Str("")>> >> }}

\* Bodies of a 2xx answer to a single-resource call.
SingleBodies ==
  {TextBody, JsonBody(JNull), JsonBody(JObj(<<>>)),
   JsonBody(JObj(<< <<"data", Workspace1>> >>)),
   JsonBody(JObj(<< <<"data", User1>> >>)),
   JsonBody(JObj(<< <<"data", Task1>> >>))}

\* Bodies of a 2xx answer to a list call: next_page missing, null (Asana's
\* last page) or a descriptor.
ListBodies ==
  {TextBody, JsonBody(JNull)}
  \cup {JsonBody(JObj(<< <<"data", JArr(items)>> >> \o np)) :
          items \in {<<>>, <<Workspace1>>},
          np \in {<<>>, << <<"next_page", JNull>> >>,
                  << <<"next_page", NextPage("abc")>> >>,
                  << <<"next_page", NextPage("xyz")>> >>}}

ErrorStatuses == {400, 401, 403, 404, 500, 503}
SuccessStatuses == {200, 201}

\* Everything fetch can settle with for a call of the tool.
Responses(tool) ==
  {Rejected}
  \cup {Response(429, ra, TextBody) : ra \in RetryAfterValues}
  \cup {Response(st, JNull, b) : st \in ErrorStatuses, b \in ErrorBodies}
  \cup {Response(204, JNull, TextBody)}
  \cup {Response(st, JNull, b) : st \in SuccessStatuses,
          b \in IF IsPaginated(tool) THEN ListBodies ELSE SingleBodies}

\* The call of a tool with its optional arguments left out, for runs with
\* several requests in progress; of the two list tools these runs call
\* asana_list_workspaces.
FewArgs(tool) ==
  {args \in ToolArgs(tool) :
     /\ args.limit = JUndef
     /\ args.offset = JUndef
     /\ args.notes = JUndef
     /\ args.format = "json"
     /\ tool = CreateTool => args.workspace # JUndef
     /\ tool # SearchTool}

\* A coarse choice among them, for runs with several requests in progress:
\* fetch rejects, or settles with the resource.
FewResponses(tool) ==
  {Rejected,
   Response(200, JNull,
            IF IsPaginated(tool)
            THEN JsonBody(JObj(<< <<"data", JArr(<<Workspace1>>)>> >>))
            ELSE JsonBody(JObj(<< <<"data", Workspace1>> >>)))}

\* ------------------------------------------------------------ specifications

\* Several tenants' requests in progress at once, interleaved at every
\* await.
Next ==
  \/ \E r \in Req, path \in Paths, method \in Methods :
       \E token \in TokenHeaders(r) : Arrive(r, path, method, token)
  \/ \E r \in Req : Route(r)
  \/ \E r \in Req : Validate(r)
  \/ \E r \in Req : CreateServer(r)
  \/ \E r \in Req : McpNoCall(r)
  \/ \E r \in Req, tool \in Tools : \E args \in FewArgs(tool) : InvokeTool(r, tool, args)
  \/ \E r \in Req : \E resp \in FewResponses(invocation[r].tool) : UpstreamResponds(r, resp)

Spec == Init /\ [][Next]_vars

\* One authenticated tool call against every upstream response.
NextAdapter ==
  \/ \E token \in TokenHeaders(1) : Arrive(1, "/mcp", "POST", token)
  \/ Route(1)
  \/ Validate(1)
  \/ CreateServer(1)
  \/ McpNoCall(1)
  \/ \E tool \in Tools : \E args \in ToolArgs(tool) : InvokeTool(1, tool, args)
  \/ \E resp \in Responses(invocation[1].tool) : UpstreamResponds(1, resp)

SpecAdapter == Init /\ [][NextAdapter]_vars

\* One tenant's tool call next to a request for the capability document.
NextCatalog ==
  \/ \E token \in TokenHeaders(1) : Arrive(1, "/mcp", "POST", token)
  \/ \E path \in {"/", "/mcp"}, method \in Methods : Arrive(2, path, method, JNull)
  \/ \E r \in {1, 2} : Route(r)
  \/ \E r \in {1, 2} : Validate(r)
  \/ CreateServer(1)
  \/ McpNoCall(1)
  \/ \E tool \in Tools : \E args \in FewArgs(tool) : InvokeTool(1, tool, args)
  \/ \E resp \in FewResponses(invocation[1].tool) : UpstreamResponds(1, resp)

SpecCatalog == Init /\ [][NextCatalog]_vars

\* Two calls of the list tools with every argument a caller can send, valid
\* or not.
NextList ==
  \/ \E r \in {1, 2} : Arrive(r, "/mcp", "POST", TokenOf(r))
  \/ \E r \in {1, 2} : Route(r)
  \/ \E r \in {1, 2} : Validate(r)
  \/ \E r \in {1, 2} : CreateServer(r)
  \/ \E r \in {1, 2}, tool \in {ListTool, SearchTool} :
       \E args \in RawArgs(tool) : InvokeTool(r, tool, args)
  \/ \E r \in {1, 2}, tool \in {ListTool, SearchTool} :
       \E args \in RawArgs(tool) : RejectArgs(r, tool, args)
  \/ \E r \in {1, 2} : \E resp \in FewResponses(invocation[r].tool) : UpstreamResponds(r, resp)

SpecList == Init /\ [][NextList]_vars

\* Two calls of asana_get_workspace, each against every upstream response.
NextRepeat ==
  \/ \E r \in {1, 2} : Arrive(r, "/mcp", "POST", TokenOf(r))
  \/ \E r \in {1, 2} : Route(r)
  \/ \E r \in {1, 2} : Validate(r)
  \/ \E r \in {1, 2} : CreateServer(r)
  \/ \E r \in {1, 2} : \E args \in ToolArgs(GetTool) : InvokeTool(r, GetTool, args)
  \/ \E r \in {1, 2} : \E resp \in Responses(GetTool) : UpstreamResponds(r, resp)

SpecRepeat == Init /\ [][NextRepeat]_vars

\* The agent of the stateful mode next to a stateless tool call.
NextAgent ==
  \/ \E env \in AgentEnvs : ConstructAgent(env)
  \/ InitAgent
  \/ \E token \in TokenHeaders(1) : Arrive(1, "/mcp", "POST", token)
  \/ Route(1)
  \/ Validate(1)
  \/ CreateServer(1)
  \/ \E tool \in Tools : \E args \in FewArgs(tool) : InvokeTool(1, tool, args)
  \/ \E resp \in FewResponses(invocation[1].tool) : UpstreamResponds(1, resp)

SpecAgent == Init /\ [][NextAgent]_vars

\* The client on its own: a server built directly from credentials that no
\* one validated, with an empty or a set access token, and one tool call.
ClientCredentials == {[accessToken |-> token] : token \in {Str(""), Str("token-1")}}

NextClient ==
  \/ \E creds \in ClientCredentials : CreateClient(1, creds)
  \/ \E tool \in Tools : \E args \in ToolArgs(tool) : InvokeTool(1, tool, args)
  \/ \E resp \in Responses(invocation[1].tool) : UpstreamResponds(1, resp)

SpecClient == Init /\ [][NextClient]_vars

\* One tenant's tool call whose inbound connection may be dropped while the
\* outbound call is in flight.  fetch settles in the end: the upstream
\* responds, or the call fails on its own.
NextAbort ==
  \/ Arrive(1, "/mcp", "POST", TokenOf(1))
  \/ Route(1)
  \/ Validate(1)
  \/ CreateServer(1)
  \/ \E tool \in Tools : \E args \in ToolArgs(tool) : InvokeTool(1, tool, args)
  \/ AbortInbound(1)
  \/ \E resp \in Responses(invocation[1].tool) : UpstreamResponds(1, resp)

SpecAbort ==
  /\ Init
  /\ [][NextAbort]_vars
  /\ WF_vars(\E resp \in Responses(invocation[1].tool) : UpstreamResponds(1, resp))

\* ------------------------------------------------------- formatter calls
\* The response formatter on its own: Init draws the arguments of one call,
\* the action applies the function.

\* Longest task list formatted.
MaxTasks == 2

ErrorMessages == {Str(""), Str("boom")}

\* What a catch block can hand to formatError: the adapter's classified
\* errors, plain Errors (with or without a property named retryable) and
\* values that are no Error.
ThrownValues ==
  {AsanaApiError(m, JNum(500)) : m \in ErrorMessages}
  \cup {RateLimitError(m, ra) : m \in ErrorMessages, ra \in {JNum(30), JNaN}}
  \cup {AuthenticationError(m) : m \in ErrorMessages}
  \cup {NotFoundError(Str("Resource"), Str("/tasks/12345"))}
  \cup {RuntimeError("TypeError", m) : m \in ErrorMessages}
  \cup {[RuntimeError("FetchError", m) EXCEPT !.retryable = TRUE] : m \in ErrorMessages}
  \cup {ThrownValue(v) : v \in {Str("boom"), Str(""), JNull, JUndef, JNum(429),
                                JObj(<< <<"retryable", JBool(TRUE)>> >>)}}

\* A field of an upstream object: absent, or present with one of the values.
Field(key, values, optional) ==
  {<< <<key, v>> >> : v \in values} \cup (IF optional THEN {<<>>} ELSE {})

\* Task objects as the list endpoints return them: assignee absent (not
\* requested), null (unassigned) or a compact user; due_on and due_at null
\* or set.
Tasks ==
  {JObj(gid \o <<<<"name", Str("Write report")>>>> \o assignee \o dueOn \o dueAt
        \o <<<<"completed", JBool(FALSE)>>>>) :
     gid \in Field("gid", {Str("1001"), Str("1002")}, FALSE),
     assignee \in Field("assignee",
                        {JNull, JObj(<< <<"gid", Str("7")>>, <<"name", Str("Ann")>> >>)},
                        TRUE),
     dueOn \in Field("due_on", {JNull, Str("2026-01-31")}, FALSE),
     dueAt \in Field("due_at", {JNull, Str("2026-01-31T10:00:00.000Z")}, FALSE)}

\* The task lists of at most MaxTasks tasks.
TaskLists == UNION {[1..n -> Tasks] : n \in 0..MaxTasks}

\* nextPage is the upstream's next_page: absent, null on the last page, or
\* the descriptor of the next page.
NextPages == {JUndef, JNull, NextPage("abc"), NextPage("xyz")}
\* The result of a list method: {data, nextPage}.  Every task list comes as
\* a page without nextPage; lists of fully set tasks come with every kind of
\* nextPage.
PagedTaskLists ==
  LET set == {task \in Tasks : /\ Get(task, "assignee").t = "obj"
                               /\ Get(task, "due_on").t = "str"
                               /\ Get(task, "due_at").t = "null"}
  IN UNION {[1..n -> set] : n \in 0..MaxTasks}
TaskPages ==
  {JObj(<< <<"data", JArr(ts)>>, <<"nextPage", JUndef>> >>) : ts \in TaskLists}
  \cup {JObj(<< <<"data", JArr(ts)>>, <<"nextPage", np>> >>) :
          ts \in PagedTaskLists, np \in NextPages}

\* Single resources as a get method returns them: scalar, null, nested
\* object and array fields, in the order the upstream sent them or in the
\* reverse order.
RECURSIVE Reverse(_)
Reverse(sq) == IF sq = <<>> THEN <<>> ELSE Reverse(Tail(sq)) \o <<Head(sq)>>

SingleObjects ==
  LET objs ==
        {gid \o name \o dueOn \o completed \o assignee \o tags \o likes :
           gid \in Field("gid", {Str("12345")}, FALSE),
           name \in Field("name", {Str("Acme"), Str("")}, FALSE),
           dueOn \in Field("due_on", {JNull, Str("2026-01-31")}, TRUE),
           completed \in Field("completed", {JBool(FALSE)}, TRUE),
           assignee \in Field("assignee",
                              {JNull, JObj(<< <<"gid", Str("7")>>, <<"name", Str("Ann")>> >>)},
                              TRUE),
           tags \in Field("tags", {JArr(<<>>), JArr(<< JObj(<< <<"gid", Str("9")>> >>) >>)},
                          TRUE),
           likes \in Field("num_likes", {JNum(0)}, TRUE)}
  IN {JObj(es) : es \in objs} \cup {JObj(Reverse(es)) : es \in objs}

\* The entity types formatPaginatedAsMarkdown has a table formatter for.
DedicatedTables ==
  {"tasks", "projects", "workspaces", "teams", "users", "tags", "sections", "stories",
   "portfolios", "goals", "webhooks"}

\* The collection tags the tools pass that have no table formatter, and a
\* tag no tool passes.
GenericTypes ==
  {"custom_fields", "project_statuses", "goal_relationships", "attachments",
   "typeahead_results", "widgets"}

\* Items of such a collection: objects of six, four, one and no fields, with
\* string, number, boolean, null and nested values, in two key orders.
GenericItems ==
  LET full == << <<"gid", Str("501")>>, <<"name", Str("Priority")>>,
                 <<"resource_type", Str("custom_field")>>, <<"type", Str("number")>>,
                 <<"enabled", JBool(TRUE)>>, <<"precision", JNum(2)>> >>
      sparse == << <<"gid", Str("502")>>, <<"name", JNull>>,
                   <<"resource_type", Str("custom_field")>>,
                   <<"type", JObj(<< <<"name", Str("enum")>> >>)>>,
                   <<"enabled", JBool(FALSE)>>, <<"precision", JNum(0)>> >>
  IN {JObj(full), JObj(SubSeq(full, 1, 4)), JObj(sparse), JObj(SubSeq(sparse, 1, 1)),
      JObj(Reverse(full)), JObj(<<>>)}

GenericLists == UNION {[1..n -> GenericItems] : n \in 0..MaxTasks}

GenericPages ==
  {JObj(<< <<"data", JArr(xs)>>, <<"nextPage", np>> >>) :
     xs \in GenericLists, np \in {JUndef, NextPage("abc")}}

FormatCalls ==
  {FormatErrorCall(e) : e \in ThrownValues}
  \cup {FormatResponseCall(page, "markdown", "tasks") : page \in TaskPages}
  \cup {FormatResponseCall(page, "markdown", type) :
          page \in GenericPages, type \in GenericTypes}
  \cup {FormatResponseCall(obj, format, "task") :
          obj \in SingleObjects, format \in {"json", "markdown"}}

InitFormat ==
  /\ pc = [r \in Req |-> "idle"]
  /\ inbound = [r \in Req |-> NoInbound]
  /\ credentials = [r \in Req |-> NoCredentials]
  /\ server = [r \in Req |-> NoServer]
  /\ invocation = [r \in Req |-> NoInvocation]
  /\ calls = [r \in Req |-> <<>>]
  /\ upstream = [r \in Req |-> Rejected]
  /\ outcome = [r \in Req |-> NoOutcome]
  /\ httpResponse = [r \in Req |-> NoHttpResponse]
  /\ formatCall \in FormatCalls
  /\ formatResult = NoToolResponse
  /\ agent = NoAgent

CallFormatError ==
  /\ formatCall.fn = "formatError"
  /\ formatResult.text.fmt = "none"
  /\ formatResult' = formatError(formatCall.error)
  /\ UNCHANGED <<pc, inbound, credentials, server, invocation, calls, upstream,
                 outcome, httpResponse, formatCall, agent>>

CallFormatResponse ==
  /\ formatCall.fn = "formatResponse"
  /\ formatResult.text.fmt = "none"
  /\ formatResult' = formatResponse(formatCall.data, formatCall.format,
                                    formatCall.entityType)
  /\ UNCHANGED <<pc, inbound, credentials, server, invocation, calls, upstream,
                 outcome, httpResponse, formatCall, agent>>

NextFormat == CallFormatError \/ CallFormatResponse

SpecFormat == InitFormat /\ [][NextFormat]_vars

\* -------------------------------------------------------------------- claims

IsMcpPost(r) == inbound[r].path = "/mcp" /\ inbound[r].method = "POST"
\* The request's tool call has made its outbound call and fetch has settled.
Settled(r) == pc[r] = "responded" /\ calls[r] # <<>>
\* fetch settled with an HTTP response of this status.
SettledWith(r, status) ==
  Settled(r) /\ ~upstream[r].rejected /\ upstream[r].status = status
ToolResult(r) == httpResponse[r].result
HasPart(str, part) == str.t = "str" /\ \E i \in 1..Len(str.s) : str.s[i] = part
Keys(o) == {o.es[i][1] : i \in 1..Len(o.es)}

\* C1: a POST /mcp request whose X-Asana-Access-Token header is missing or
\* empty never gets a tool registry and never causes an outbound call, and
\* it is answered with HTTP 401 and the JSON body
\* {error, message, required_headers: ["X-Asana-Access-Token"]}.
C1_MissingTokenIs401 ==
  \A r \in Req :
    (IsMcpPost(r) /\ (inbound[r].token = JNull \/ inbound[r].token = Str("")))
    => /\ ~server[r].built
       /\ calls[r] = <<>>
       /\ pc[r] \in {"unauthenticated", "validating", "responded"}
       /\ pc[r] = "responded" =>
            /\ httpResponse[r].status = 401
            /\ httpResponse[r].body.fmt = "json"
            /\ Keys(httpResponse[r].body.v) = {"error", "message", "required_headers"}
            /\ Get(httpResponse[r].body.v, "error").t = "str"
            /\ Get(httpResponse[r].body.v, "message").t = "str"
            /\ Get(httpResponse[r].body.v, "required_headers")
                 = JArr(<<Str("X-Asana-Access-Token")>>)

\* Both cases have been answered: one request without the header and one
\* with an empty header, each with 401.
C1_Witness ==
  \E r, q \in Req :
    /\ IsMcpPost(r) /\ inbound[r].token = JNull
    /\ IsMcpPost(q) /\ inbound[q].token = Str("")
    /\ pc[r] = "responded" /\ httpResponse[r].status = 401
    /\ pc[q] = "responded" /\ httpResponse[q].status = 401

\* C2: whatever the interleaving of concurrently handled /mcp requests,
\* every outbound call made for a request goes to the fixed base URL and
\* carries Authorization: Bearer <the token of that same request>, never
\* the token of another request.
C2_OwnTokenOnly ==
  \A r \in Req : \A i \in 1..Len(calls[r]) :
    /\ calls[r][i].base = "https://app.asana.com/api/1.0"
    /\ inbound[r].token.t = "str"
    /\ Get(calls[r][i].headers, "Authorization")
         = JStr(<<"Bearer ">> \o inbound[r].token.s)
    /\ \A q \in Req \ {r} :
         inbound[q].token.t = "str"
         => Get(calls[r][i].headers, "Authorization")
              # JStr(<<"Bearer ">> \o inbound[q].token.s)

\* Two requests with different tokens have their outbound calls in flight
\* at the same time.
C2_Witness ==
  \E r, q \in Req :
    /\ r # q
    /\ pc[r] = "awaiting" /\ pc[q] = "awaiting"
    /\ calls[r] # <<>> /\ calls[q] # <<>>
    /\ inbound[r].token # inbound[q].token

\* sub occurs in str as a run of consecutive parts.
Contains(str, sub) ==
  /\ str.t = "str" /\ sub.t = "str"
  /\ \E i \in 0..(Len(str.s) - Len(sub.s)) :
       \A j \in 1..Len(sub.s) : str.s[i + j] = sub.s[j]

\* C3: after an upstream 429 the adapter has thrown a RateLimitError whose
\* wait hint is the integer of the Retry-After header when the header holds
\* a number, and 60 when the header is absent or holds no valid number.
C3_RetryAfterOrDefault ==
  \A r \in Req :
    SettledWith(r, 429)
    => /\ outcome[r].error.name = "RateLimitError"
       /\ LET ra == upstream[r].retryAfter
          IN IF ra.t = "chars" /\ ParseInt(ra.cs).t = "num"
             THEN outcome[r].error.retryAfter = ParseInt(ra.cs)
             ELSE outcome[r].error.retryAfter = JNum(60)

\* C4: after an upstream 404 the adapter has thrown a NotFoundError whose
\* message names the requested path, for single-resource and list calls
\* alike, and the tool has returned an error envelope with isError: true.
C4_NotFoundEverywhere ==
  \A r \in Req :
    SettledWith(r, 404)
    => /\ outcome[r].error.name = "NotFoundError"
       /\ Contains(outcome[r].error.message,
                   Endpoint(invocation[r].tool, invocation[r].args))
       /\ ToolResult(r).isError = JBool(TRUE)

\* C5: no tool invocation ever makes a second outbound call: a request has
\* at most one outbound call, and once fetch has settled, whatever the
\* upstream outcome, the handler has returned and the request is answered.
C5_AtMostOneCall ==
  \A r \in Req :
    /\ Len(calls[r]) <= 1
    /\ calls[r] # <<>> => pc[r] \in {"awaiting", "responded"}
    /\ Settled(r) => ToolResult(r).text.fmt # "none"

\* A tool call was answered after a 429, with one outbound call made.
C5_Witness ==
  \E r \in Req : SettledWith(r, 429) /\ Len(calls[r]) = 1

\* C6: whenever the Asana call of a tool fails, the tool's response is
\* marked isError: true and its text is JSON with an `error` string and a
\* `details` object, for every tool including asana_test_connection.
C6_UniformErrorEnvelope ==
  \A r \in Req :
    (Settled(r) /\ ~outcome[r].ok)
    => /\ ToolResult(r).isError = JBool(TRUE)
       /\ ToolResult(r).text.fmt = "json"
       /\ Get(ToolResult(r).text.v, "error").t = "str"
       /\ Get(ToolResult(r).text.v, "details").t = "obj"

\* C7: for a list call that succeeded, a next_page descriptor of the body
\* is returned with its offset unchanged, and when the body carries no next
\* page (the key is missing or null) the result holds no pagination
\* descriptor and the tool's JSON output has no nextPage entry.
C7_PaginationDescriptor ==
  \A r \in Req :
    (Settled(r) /\ IsPaginated(invocation[r].tool) /\ outcome[r].ok)
    => LET np == Get(upstream[r].body.v, "next_page")
       IN IF np.t = "obj"
          THEN /\ Get(Get(outcome[r].value, "nextPage"), "offset") = Get(np, "offset")
               /\ Get(Get(ToolResult(r).text.v, "nextPage"), "offset") = Get(np, "offset")
          ELSE /\ Get(outcome[r].value, "nextPage") = JUndef
               /\ ~HasKey(ToolResult(r).text.v, "nextPage")

\* C8: after an upstream 401 or 403 the adapter has thrown an
\* AuthenticationError that is not retryable, for single-resource and list
\* calls alike, and the tool's message carries no retryable annotation.
C8_AuthErrorNotRetryable ==
  \A r \in Req :
    (SettledWith(r, 401) \/ SettledWith(r, 403))
    => /\ outcome[r].error.name = "AuthenticationError"
       /\ ~outcome[r].error.retryable
       /\ ToolResult(r).text.fmt = "json"
       /\ ~HasPart(Get(ToolResult(r).text.v, "error"), " (retryable)")
       /\ ~HasPart(Get(ToolResult(r).text.v, "message"), " (retryable)")

\* A list call was answered after an upstream 403.
C8_Witness ==
  \E r \in Req :
    /\ SettledWith(r, 403)
    /\ IsPaginated(invocation[r].tool)
    /\ Get(ToolResult(r).text.v, "error")
         = JStr(<<"Error: ", "Authentication failed. Check your Asana access token.">>)

\* The messages an error body carries: errors[0].message and message, when
\* the body is a JSON object and they are non-empty strings.
BodyMessages(body) ==
  IF ~body.json \/ body.v.t # "obj" THEN {}
  ELSE {m \in {OptGet(First(Get(body.v, "errors")), "message"), Get(body.v, "message")} :
          m.t = "str" /\ m # Str("")}

\* C9: after an upstream non-2xx status other than 429, 401, 403 and 404 the
\* adapter has thrown a generic API error carrying that status code, whose
\* message is a message of the JSON error body when there is one and
\* "Asana API error: <status>" otherwise.
C9_GenericApiError ==
  \A r \in Req :
    (Settled(r) /\ ~upstream[r].rejected
       /\ upstream[r].status \notin {429, 401, 403, 404}
       /\ ~(upstream[r].status >= 200 /\ upstream[r].status <= 299))
    => /\ outcome[r].error.name = "AsanaApiError"
       /\ outcome[r].error.statusCode = JNum(upstream[r].status)
       /\ IF BodyMessages(upstream[r].body) # {}
          THEN outcome[r].error.message \in BodyMessages(upstream[r].body)
          ELSE outcome[r].error.message
                 = JStr(<<"Asana API error: ", ToString(upstream[r].status)>>)

\* A 500 whose body carries only errors[0].message was reported with that
\* message and that status code.
C9_Witness ==
  \E r \in Req :
    /\ SettledWith(r, 500)
    /\ ~HasKey(upstream[r].body.v, "message")
    /\ outcome[r].error.message = Str("Invalid field")
    /\ outcome[r].error.statusCode = JNum(500)

\* C10: after an upstream 204 the adapter call has returned (no error) and
\* has not read the response body, for single-resource and list calls alike.
C10_NoContentIsSuccess ==
  \A r \in Req :
    SettledWith(r, 204) => outcome[r].ok /\ outcome[r].bodyReads = 0

\* Whether the formatter call has returned.
Formatted(fn) == formatCall.fn = fn /\ formatResult.text.fmt # "none"

\* C11: formatError appends " (retryable)" to the message exactly when the
\* thrown value is an AsanaApiError whose retryable flag is set, which only
\* the rate-limit error is; for every other thrown value the message is
\* "Error: " followed by the error's message (an Error) or by the value's
\* string form (any other value), with no annotation.  The result is always
\* marked isError: true.
C11_RetryableAnnotation ==
  Formatted("formatError") =>
    LET e == formatCall.error
        text == IF e.isError THEN e.message ELSE Template(e.message)
        plain == JStr(<<"Error: ">> \o text.s)
        annotated == JStr(<<"Error: ">> \o text.s \o <<" (retryable)">>)
        message == Get(formatResult.text.v, "error")
    IN /\ formatResult.isError = JBool(TRUE)
       /\ formatResult.text.fmt = "json"
       /\ message = (IF e.isApi /\ e.retryable THEN annotated ELSE plain)
       /\ message = annotated => e.name = "RateLimitError"

C11_Witness ==
  /\ Formatted("formatError")
  /\ formatCall.error.name = "RateLimitError"
  /\ Get(formatResult.text.v, "error") = JStr(<<"Error: ", "boom", " (retryable)">>)

\* The lines of the Markdown text the formatter returned.
MarkdownLines == formatResult.text.v
\* A line that is a table row `| c1 | c2 | ...`: the header line and the
\* separator line are single literals that start differently.
IsTableRow(line) == line.t = "str" /\ line.s # <<>> /\ line.s[1] = "| "
IsTableLine(line) ==
  line.t = "str" /\ line.s # <<>>
  /\ line.s[1] \in {"| ", "|", "| GID | Name | Assignee | Due | Completed |",
                    "|---|---|---|---|---|"}
\* Cell k of a table row.
Cell(row, k) == row.s[2 * k]
IsTaskList ==
  /\ Formatted("formatResponse")
  /\ formatCall.format = "markdown"
  /\ formatCall.entityType = "tasks"
  /\ isPaginatedResponse(formatCall.data)

\* C13: a task list formatted as Markdown has exactly one table row per
\* task, in the order of the list: row i carries the gid of task i, shows -
\* as assignee when task i has no assignee, and shows - as due date when
\* task i has neither due_on nor due_at.
C13_OneRowPerTask ==
  IsTaskList =>
    LET tasks == Get(formatCall.data, "data").xs
        rows == SelectSeq(MarkdownLines, IsTableRow)
    IN /\ formatResult.text.fmt = "markdown"
       /\ Len(rows) = Len(tasks)
       /\ \A i \in 1..Len(tasks) :
            /\ Cell(rows[i], 1) = Get(tasks[i], "gid").s[1]
            /\ Get(tasks[i], "assignee").t \in {"undefined", "null"}
                 => Cell(rows[i], 3) = "-"
            /\ (~Truthy(Get(tasks[i], "due_on")) /\ ~Truthy(Get(tasks[i], "due_at")))
                 => Cell(rows[i], 4) = "-"

\* Two different tasks, the first with neither assignee nor due date, the
\* second with both.
C13_Witness ==
  /\ IsTaskList
  /\ LET tasks == Get(formatCall.data, "data").xs
         rows == SelectSeq(MarkdownLines, IsTableRow)
     IN /\ Len(tasks) = 2
        /\ Len(rows) = 2
        /\ Get(tasks[1], "gid") = Str("1002")
        /\ Get(tasks[2], "gid") = Str("1001")
        /\ ~HasKey(tasks[1], "assignee")
        /\ Cell(rows[1], 3) = "-"
        /\ Cell(rows[1], 4) = "-"
        /\ Cell(rows[2], 3) = "Ann"
        /\ Cell(rows[2], 4) = "2026-01-31"

IsSingleObject ==
  /\ Formatted("formatResponse")
  /\ formatCall.format = "markdown"
  /\ formatCall.data.t = "obj"
  /\ ~HasKey(formatCall.data, "data")

\* A `**Key:**` line.
IsKeyLine(line) == line.t = "str" /\ line.s # <<>> /\ line.s[1] = "**"
HasValue(e) == e[2].t \notin {"null", "undefined"}

GetSucceeded ==
  /\ pc[1] = "responded"
  /\ invocation[1].tool = GetTool
  /\ invocation[1].args.format = "json"
  /\ calls[1] # <<>>
  /\ ~upstream[1].rejected
  /\ upstream[1].status \in SuccessStatuses
  /\ upstream[1].body.json
  /\ Get(upstream[1].body.v, "data").t = "obj"

\* C12: the JSON-mode output of a successful single-resource get tool is the
\* serialization of exactly the object found under the upstream `data` key:
\* the envelope is removed and the object's fields are the same, with the
\* same values, in the same order; the result is not marked as an error.
C12_GetReturnsDataVerbatim ==
  GetSucceeded =>
    ToolResult(1) = ToolResponse([fmt |-> "json", v |-> Get(upstream[1].body.v, "data")],
                                 JUndef)

C12_Witness ==
  /\ GetSucceeded
  /\ ToolResult(1).text.v = Task1

\* Request 1 called asana_create_task with a name and a workspace and no
\* other argument.
CreateNameWorkspace ==
  /\ pc[1] \in {"awaiting", "responded"}
  /\ invocation[1].tool = CreateTool
  /\ invocation[1].args.workspace # JUndef
  /\ invocation[1].args.notes = JUndef

\* C15: asana_create_task called with only a name and a workspace makes
\* exactly one outbound call, POST /tasks, whose body is
\* {data: {name, workspace}} with no other key; when the upstream answers
\* 2xx with {data: T}, the tool returns
\* {success: true, message: "Task created", task: T} and sets no isError.
C15_CreateTaskMinimalBody ==
  CreateNameWorkspace =>
    /\ Len(calls[1]) = 1
    /\ calls[1][1].method = "POST"
    /\ calls[1][1].endpoint = Str("/tasks")
    /\ calls[1][1].query = <<>>
    /\ calls[1][1].body =
         [fmt |-> "json",
          v |-> JObj(<< <<"data", JObj(<< <<"name", invocation[1].args.name>>,
                                         <<"workspace", invocation[1].args.workspace>> >>)>> >>)]
    /\ (/\ pc[1] = "responded"
        /\ ~upstream[1].rejected
        /\ upstream[1].status \in SuccessStatuses
        /\ upstream[1].body.json
        /\ Get(upstream[1].body.v, "data").t = "obj")
       => ToolResult(1) =
            ToolResponse([fmt |-> "json",
                          v |-> JObj(<< <<"success", JBool(TRUE)>>,
                                        <<"message", Str("Task created")>>,
                                        <<"task", Get(upstream[1].body.v, "data")>> >>)],
                         JUndef)

C15_Witness ==
  /\ CreateNameWorkspace
  /\ pc[1] = "responded"
  /\ upstream[1].status = 201
  /\ Get(ToolResult(1).text.v, "task") = Task1
  /\ Keys(Get(calls[1][1].body.v, "data")) = {"name", "workspace"}

\* The transitions of a request's lifecycle.  The model's "awaiting" is the
\* part of the dispatched state in which the tool handler waits for the
\* upstream.
LifecycleEdges ==
  {<<"idle", "unauthenticated">>, <<"unauthenticated", "validating">>,
   <<"unauthenticated", "responded">>, <<"validating", "authenticated">>,
   <<"validating", "responded">>, <<"authenticated", "dispatched">>,
   <<"dispatched", "awaiting">>, <<"dispatched", "responded">>,
   <<"awaiting", "responded">>}

\* What holds of request r in every state: a registry exists only for a
\* request that passed validation and was handed to the MCP handler, a tool
\* runs only on such a registry, a 401 was never dispatched, and a response
\* exists exactly in the responded state.
LifecycleState(r) ==
  /\ server[r].built =>
       /\ pc[r] \in {"dispatched", "awaiting", "responded"}
       /\ Truthy(credentials[r].accessToken)
       /\ IsMcpPost(r)
  /\ pc[r] \in {"dispatched", "awaiting"} => server[r].built
  /\ invocation[r] # NoInvocation => server[r].built
  /\ (pc[r] = "responded" /\ httpResponse[r].status = 401) =>
       /\ ~server[r].built
       /\ invocation[r] = NoInvocation
       /\ calls[r] = <<>>
  /\ pc[r] = "responded" <=> httpResponse[r] # NoHttpResponse

\* What holds of request r in every step: it moves along the lifecycle
\* only, the registry is built on the step from authenticated to dispatched,
\* and the response is set on the step that enters responded and never
\* again.
LifecycleStep(r) ==
  /\ pc'[r] # pc[r] => <<pc[r], pc'[r]>> \in LifecycleEdges
  /\ server'[r] # server[r] => (pc[r] = "authenticated" /\ pc'[r] = "dispatched")
  /\ httpResponse'[r] # httpResponse[r] => (pc[r] # "responded" /\ pc'[r] = "responded")
  /\ (pc[r] = "validating" /\ pc'[r] = "responded") => httpResponse'[r].status = 401

\* C16: a request goes unauthenticated -> validating -> authenticated ->
\* dispatched -> responded; the tool registry is built and handed to the MCP
\* handler only after validation succeeded; a request that fails validation
\* goes straight to responded with a 401 and is never dispatched; a request
\* is responded to once and its response never changes afterwards.
C16_Lifecycle ==
  /\ [](\A r \in Req : LifecycleState(r))
  /\ [][\A r \in Req : LifecycleStep(r)]_vars

\* One request was refused with 401, another went all the way through a
\* tool call.
C16_Witness ==
  \E r, q \in Req :
    /\ pc[r] = "responded" /\ httpResponse[r].status = 401
    /\ pc[q] = "responded" /\ server[q].built /\ calls[q] # <<>>

\* The request never had its credentials read, a registry built, a tool
\* dispatched or an outbound call made.
Untouched(r) ==
  /\ pc[r] \in {"unauthenticated", "responded"}
  /\ credentials[r] = NoCredentials
  /\ ~server[r].built
  /\ invocation[r] = NoInvocation
  /\ calls[r] = <<>>

\* C17: a request to /health, whatever its method and whether or not it
\* carries a token, is answered 200 with the static body
\* {status: "ok", server: <server name>}; no credential is read, no registry
\* is built and no outbound call is made for it.
C17_HealthIsStatic ==
  \A r \in Req :
    (pc[r] # "idle" /\ inbound[r].path = "/health") =>
      /\ Untouched(r)
      /\ pc[r] = "responded" =>
           /\ httpResponse[r].status = 200
           /\ httpResponse[r].body =
                [fmt |-> "json",
                 v |-> JObj(<< <<"status", Str("ok")>>,
                               <<"server", Str("primrose-mcp-asana")>> >>)]

\* A POST to /health without a token and a GET with one are both answered.
C17_Witness ==
  \E r, q \in Req :
    /\ pc[r] = "responded" /\ inbound[r].path = "/health"
    /\ inbound[r].method = "POST" /\ inbound[r].token = JNull
    /\ pc[q] = "responded" /\ inbound[q].path = "/health"
    /\ inbound[q].method = "GET" /\ inbound[q].token = TokenOf(q)
    /\ httpResponse[r] = httpResponse[q]
    /\ httpResponse[r].status = 200

\* C18: a request to /sse is answered with HTTP 501 whatever its method and
\* credentials, and never reaches credential validation or dispatch.
C18_SseNotImplemented ==
  \A r \in Req :
    (pc[r] # "idle" /\ inbound[r].path = "/sse") =>
      /\ Untouched(r)
      /\ pc[r] = "responded" =>
           /\ httpResponse[r].status = 501
           /\ httpResponse[r].body.fmt = "plain"

C18_Witness ==
  \E r, q \in Req :
    /\ pc[r] = "responded" /\ inbound[r].path = "/sse"
    /\ inbound[r].method = "POST" /\ inbound[r].token = TokenOf(r)
    /\ httpResponse[r].status = 501
    /\ pc[q] = "responded" /\ inbound[q].path = "/sse"
    /\ inbound[q].method = "GET" /\ inbound[q].token = JNull
    /\ httpResponse[q].status = 501

\* The top-level keys of the capability document.
CapabilityKeys ==
  {"name", "version", "description", "endpoints", "authentication", "tools"}

\* C19: a request that is not for /health, not for /sse and not a POST to
\* /mcp - a GET /mcp among them - is answered 200 with the static capability
\* document; no credential is checked, no registry is built and no outbound
\* call is made for it.
C19_DefaultIsCapabilityDocument ==
  \A r \in Req :
    (/\ pc[r] # "idle"
     /\ inbound[r].path # "/health"
     /\ inbound[r].path # "/sse"
     /\ ~IsMcpPost(r)) =>
      /\ Untouched(r)
      /\ pc[r] = "responded" =>
           /\ httpResponse[r].status = 200
           /\ httpResponse[r].body.fmt = "json"
           /\ Keys(httpResponse[r].body.v) = CapabilityKeys
           /\ Get(httpResponse[r].body.v, "name") = Str("primrose-mcp-asana")
           /\ \A q \in Req :
                (pc[q] = "responded" /\ inbound[q].path \notin {"/health", "/sse"}
                 /\ ~IsMcpPost(q)) => httpResponse[q] = httpResponse[r]

\* A GET /mcp with a valid token and a POST to / without one get the same
\* document.
C19_Witness ==
  \E r, q \in Req :
    /\ pc[r] = "responded" /\ inbound[r].path = "/mcp"
    /\ inbound[r].method = "GET" /\ inbound[r].token = TokenOf(r)
    /\ pc[q] = "responded" /\ inbound[q].path = "/"
    /\ inbound[q].method = "POST" /\ inbound[q].token = JNull
    /\ httpResponse[r].status = 200
    /\ httpResponse[q] = httpResponse[r]

\* The tool names a capability document lists.
CatalogOf(response) ==
  LET tools == Get(response.body.v, "tools").xs
  IN {tools[i].s[1] : i \in 1..Len(tools)}

\* C20: the tool names listed in the capability document are exactly the
\* names createStatelessServer registers, and no name is registered twice.
C20_CatalogMatchesRegistry ==
  \A r, q \in Req :
    (/\ server[r].built
     /\ pc[q] = "responded"
     /\ Destination(inbound[q].path, inbound[q].method) = "default") =>
      LET registered == server[r].registered
      IN /\ CatalogOf(httpResponse[q]) = {registered[i] : i \in 1..Len(registered)}
         /\ Cardinality({registered[i] : i \in 1..Len(registered)}) = Len(registered)
         /\ server[r].tools \subseteq CatalogOf(httpResponse[q])

C20_Witness ==
  \E r, q \in Req :
    /\ server[r].built
    /\ pc[q] = "responded"
    /\ Destination(inbound[q].path, inbound[q].method) = "default"
    /\ Len(server[r].registered) = 104
    /\ Cardinality(CatalogOf(httpResponse[q])) = 104

\* The values of the query parameter `key` in the URL of an outbound call,
\* in the order they appear.
QueryValues(call, key) ==
  LET IsKey(e) == e[1] = key
      found == SelectSeq(call.query, IsKey)
  IN [k \in 1..Len(found) |-> found[k][2]]

\* The limit argument is an integer from 1 to 100.
LimitInRange(v) == v.t = "num" /\ v.n \in 1..100

\* C21: a list tool called with a limit that is not an integer from 1 to 100
\* (0, negative, above 100, not an integer, not a number) makes no outbound
\* call, and every limit parameter in the URL of an outbound list call is
\* the decimal text of an integer from 1 to 100; a call made without a limit
\* argument carries no limit parameter.
C21_LimitWithinBounds ==
  \A r \in Req :
    /\ (/\ IsPaginated(invocation[r].tool)
        /\ invocation[r].args.limit # JUndef
        /\ ~LimitInRange(invocation[r].args.limit))
       => calls[r] = <<>>
    /\ \A i \in 1..Len(calls[r]) :
         LET limits == QueryValues(calls[r][i], "limit")
         IN /\ \A k \in 1..Len(limits) : limits[k] \in {Str(ToString(n)) : n \in 1..100}
            /\ invocation[r].args.limit = JUndef => limits = <<>>

\* One list call carries the largest limit the schema accepts while another
\* call, with a limit of 101, was answered without an outbound call.
C21_Witness ==
  \E r, q \in Req :
    /\ invocation[r].tool = ListTool
    /\ invocation[r].args.limit = JNum(100)
    /\ pc[r] = "awaiting"
    /\ QueryValues(calls[r][1], "limit") = <<Str("100")>>
    /\ invocation[q].tool = ListTool
    /\ invocation[q].args.limit = JNum(101)
    /\ pc[q] = "responded"
    /\ calls[q] = <<>>

\* The request called asana_get_workspace and its upstream call has settled.
GetSettled(r) == Settled(r) /\ invocation[r].tool = GetTool

C23_AgentInitAlwaysFails ==
  /\ agent.state \in {"none", "constructed", "failed"}
  /\ agent.registered = <<>>
  /\ agent.calls = <<>>
  /\ agent.inits > 0 =>
       /\ agent.state = "failed"
       /\ agent.error.isError
       /\ agent.error.name = "Error"
  /\ agent.inits = 0 => agent.error = NoError

\* init() was invoked twice on an agent whose session carries a token and
\* whose environment has the session binding.
C23_Witness ==
  /\ agent.state = "failed"
  /\ agent.inits = 2
  /\ agent.env.sessions
  /\ agent.env.token = Str("token-1")

\* The names in a sequence of names.
NameSet(names) == {names[i] : i \in 1..Len(names)}

\* C24: every tool name README.md lists under "Available Tools" is the name
\* of a tool registered on the server built for a request.
C24_ReadmeToolsRegistered ==
  \A r \in Req :
    server[r].built => NameSet(ReadmeToolNames) \subseteq NameSet(server[r].registered)

\* The request's outbound call failed: fetch rejected, or the upstream
\* answered with a status outside 2xx (401, 403, 404, 429, 5xx, ...).
UpstreamFailed(r) ==
  Settled(r) /\ (upstream[r].rejected \/ ~IsOk(upstream[r].status))

\* The HTTP-level part: the reply to a request that passed the credential
\* check is the MCP handler's 200 reply carrying a tool result, and a 401 is
\* returned only to a request whose credentials failed validation, which
\* never made an outbound call.
FailureStaysInsideToolResult ==
  \A r \in Req :
    /\ UpstreamFailed(r) =>
         /\ httpResponse[r].status = 200
         /\ httpResponse[r].body.fmt = "mcp"
         /\ ToolResult(r).text.fmt # "none"
    /\ (pc[r] = "responded" /\ httpResponse[r].status = 401) =>
         /\ ~validateCredentials(credentials[r])
         /\ calls[r] = <<>>

\* C25: for a request that passed the credential check, a failed upstream
\* call (401, 403, 404, 429, 5xx, a rejected fetch) never changes the HTTP
\* status of the reply: it is reported inside the tool's error envelope
\* (isError: true, JSON with error and details), and the gateway's HTTP 401
\* comes from the missing-token check alone.
C25_NoHttpFailureFromUpstream ==
  /\ FailureStaysInsideToolResult
  /\ \A r \in Req :
       UpstreamFailed(r) =>
         /\ ToolResult(r).isError = JBool(TRUE)
         /\ ToolResult(r).text.fmt = "json"
         /\ HasKey(ToolResult(r).text.v, "error")
         /\ HasKey(ToolResult(r).text.v, "details")

\* C26: the URL of every outbound list call, asana_search_tasks included,
\* carries at most one limit parameter and at most one offset parameter, and
\* an offset parameter it carries is the caller's offset token, unmodified.
C26_PaginationParamsOnce ==
  \A r \in Req : \A i \in 1..Len(calls[r]) :
    IsPaginated(invocation[r].tool) =>
      LET limits == QueryValues(calls[r][i], "limit")
          offsets == QueryValues(calls[r][i], "offset")
      IN /\ Len(limits) <= 1
         /\ Len(offsets) <= 1
         /\ \A k \in 1..Len(offsets) : offsets[k] = invocation[r].args.offset

IsPage ==
  /\ Formatted("formatResponse")
  /\ formatCall.format = "markdown"
  /\ isPaginatedResponse(formatCall.data)
\* The "Showing" line and the "More available" line of the metadata.
IsShowingLine(line) == line.t = "str" /\ line.s # <<>> /\ line.s[1] = "**Showing:** "
IsMoreLine(line) ==
  line.t = "str" /\ line.s # <<>> /\ line.s[1] = "**More available:** Yes (offset: "

\* C27: a collection formatted as Markdown has one "Showing" line, whose
\* count is the number of items of the page; it has a "More available" line
\* exactly when the page has a next-page descriptor, and that line shows the
\* descriptor's offset; both lines come before every line of the table.
C27_PaginationMetadataFirst ==
  IsPage =>
    LET lines == MarkdownLines
        items == Get(formatCall.data, "data").xs
        nextPage == Get(formatCall.data, "nextPage")
        showing == {i \in 1..Len(lines) : IsShowingLine(lines[i])}
        more == {i \in 1..Len(lines) : IsMoreLine(lines[i])}
        table == {i \in 1..Len(lines) : IsTableLine(lines[i])}
    IN /\ Cardinality(showing) = 1
       /\ \A i \in showing : lines[i].s = <<"**Showing:** ", ToString(Len(items)), " items">>
       /\ (more # {}) <=> (nextPage.t = "obj")
       /\ Cardinality(more) <= 1
       /\ \A i \in more :
            lines[i].s = <<"**More available:** Yes (offset: ", GraveAccent>>
                         \o Get(nextPage, "offset").s \o <<GraveAccent, ")">>
       /\ \A i \in showing \cup more : \A k \in table : i < k
       /\ Len(items) > 0 => table # {}

\* A page of two tasks with a next-page descriptor: the metadata announces
\* two items and the descriptor's offset, above the table.
C27_Witness ==
  /\ IsPage
  /\ Len(Get(formatCall.data, "data").xs) = 2
  /\ Get(formatCall.data, "nextPage") = NextPage("xyz")
  /\ MarkdownLines[3] = JStr(<<"**Showing:** ", "2", " items">>)
  /\ MarkdownLines[4] = JStr(<<"**More available:** Yes (offset: ", GraveAccent, "xyz",
                               GraveAccent, ")">>)
  /\ IsTableLine(MarkdownLines[6])

IsGenericPage ==
  /\ IsPage
  /\ formatCall.entityType \notin DedicatedTables
  /\ Get(formatCall.data, "data").xs # <<>>
\* The cells of a table line `| c1 | c2 | ... |`.
Cells(row) == [k \in 1..((Len(row.s) - 1) \div 2) |-> row.s[2 * k]]

\* C28: a non-empty collection whose entity type has no table formatter is
\* rendered as a header line, a separator line and one row per item, in the
\* order of the items; the header holds the first five keys of the first
\* item (all of them when it has fewer), in key order; in a row, the cell
\* of a key the item lacks is -, and the cell of a key with a (non-null)
\* scalar value is that value.
C28_GenericTableFallback ==
  IsGenericPage =>
    LET items == Get(formatCall.data, "data").xs
        first == items[1]
        n == IF Len(first.es) < 5 THEN Len(first.es) ELSE 5
        table == SelectSeq(MarkdownLines, IsTableLine)
    IN /\ Len(table) = 2 + Len(items)
       /\ Cells(table[1]) = [k \in 1..n |-> first.es[k][1]]
       /\ table[2].s = <<"|">> \o (IF n = 0 THEN <<>> ELSE <<"---">>)
                        \o [j \in 1..(2 * n - 2) |-> IF j % 2 = 1 THEN "|" ELSE "---"]
                        \o <<"|">>
       /\ \A i \in 1..Len(items) :
            LET cells == Cells(table[2 + i])
            IN /\ Len(cells) = n
               /\ \A k \in 1..n :
                    LET value == Get(items[i], first.es[k][1])
                    IN /\ ~HasKey(items[i], first.es[k][1]) => cells[k] = "-"
                       /\ value.t = "str" => cells[k] = value.s[1]
                       /\ value.t = "num" => cells[k] = ToString(value.n)

\* Custom fields: the first item has six keys, the second has one; the
\* table has five columns, and the second row shows - for the four keys the
\* second item lacks.
C28_Witness ==
  /\ IsGenericPage
  /\ formatCall.entityType = "custom_fields"
  /\ LET items == Get(formatCall.data, "data").xs
         table == SelectSeq(MarkdownLines, IsTableLine)
     IN /\ Len(items) = 2
        /\ Len(items[1].es) = 6
        /\ Len(items[2].es) = 1
        /\ Len(table) = 4
        /\ Cells(table[1]) = <<"gid", "name", "resource_type", "type", "enabled">>
        /\ Cells(table[3]) = <<"501", "Priority", "custom_field", "number", "true">>
        /\ Cells(table[4]) = <<"502", "-", "-", "-", "-">>

\* The request's tool was called on a client that holds an empty token.
CalledWithoutToken(r) ==
  /\ server[r].built
  /\ ~Truthy(server[r].client.accessToken)
  /\ invocation[r].tool # ""
\* The outcome of the client method the request's tool calls:
\* asana_test_connection calls testConnection, which catches what getMe
\* throws; the other tools call the method whose outcome is recorded.
ClientMethodOutcome(r) ==
  IF invocation[r].tool = TestTool
  THEN Returned(testConnection(outcome[r]), outcome[r].bodyReads)
  ELSE outcome[r]
NoTokenError ==
  AuthenticationError(Str("No access token provided. Include X-Asana-Access-Token header."))

AbortStep(r) == ~inbound[r].aborted /\ inbound'[r].aborted
====
